---------------------------- MODULE Spec2Model ----------------------------
(***************************************************************************)
(* A model of the handle-and-object core of kms-integrations:              *)
(*   - kmsp11/util/handle_map.h : HandleMap<T>, the concurrent registry    *)
(*   - kmsp11/token.cc          : Token login state, the object-store      *)
(*                                loader (Token::New) and FindObjects      *)
(*   - kmscng/main/bridge.cc    : the CNG provider bridge entry points     *)
(* Each component has its own specifications (SpecHandleMap, SpecHolders,  *)
(* SpecFind, SpecFindSteps, SpecDraws, SpecToken, SpecTokenSteps,          *)
(* SpecTokenCalls, SpecTokenLive, SpecBridge, SpecProps, SpecKeys,         *)
(* SpecSign, SpecLoader, SpecFindObjects, SpecMaterialize); the variables  *)
(* of the other components stay at their initial values.                   *)
(***************************************************************************)
EXTENDS Integers, Sequences, FiniteSets, TLC

\* ------------------------------------------------------------------ bounds
\* Number of threads calling into one HandleMap / one Token.
NumThreads == 2
\* RandomHandle() and caller-chosen handles range over 1..MaxHandle.
MaxHandle == 2
\* Distinct items (shared_ptr<T> targets) are 1..MaxItem.
MaxItem == 2
\* Addresses `new` can return are 1..MaxAddr.
MaxAddr == 3
\* Object handles of the loader range over 1..MaxObjHandle.
MaxObjHandle == 4
\* The key ring lists at most MaxKeys keys, each with at most MaxVersions versions.
MaxKeys == 2
MaxVersions == 2
\* The snapshot holds at most MaxEntries entries.
MaxEntries == 2

Threads == 1..NumThreads
Handles == 1..MaxHandle
Items == 1..MaxItem
\* "no thread" / "no item" / CK_INVALID_HANDLE
NoThread == 0
NoItem == 0
NoHandle == 0

VARIABLES
  \* ---- HandleMap (handle_map.h) ----
  items_,      \* flat_hash_map<CK_ULONG, shared_ptr<T>>: a function on the occupied handles
  mutex_,      \* absl::Mutex: [writer: thread or NoThread, readers: set of threads]
  hm_pc,       \* per thread: where it is inside a HandleMap method
  hm_frame,    \* per thread: [handle, item], the parameters / the local `handle`
  hm_last,     \* the call that returned last: [op, handle, item, status]
  hm_issued,   \* history: per handle, insertions reported OK minus removals reported OK
  hm_bound,    \* history: per handle, the item of the insertion reported OK and not yet removed
  not_found_rv_,  \* CK_RV not_found_rv_, fixed by the constructor
  use_count,   \* per item object, the number of std::shared_ptr that own it
  hm_held,     \* per thread, the items whose shared_ptr (returned by Get) it still holds
  \* ---- Token (token.cc) ----
  is_logged_in_,  \* bool is_logged_in_
  login_mutex_,   \* absl::Mutex login_mutex_: [writer, readers]
  tk_pc,          \* per thread: where it is inside a Token method
  tk_frame,       \* per thread: the parameter `user` of the Login it is inside
  tk_last,        \* the call that returned last: [op, user, status, value]
  tk_lastOk,      \* history: the last of Login / Logout that returned OK ("none" at first)
  \* ---- Provider bridge (bridge.cc) ----
  heap,           \* the objects made by `new`: address -> free cell, Provider or Object
  br_last,        \* the bridge call that returned last, with what it wrote and requested
  \* ---- Object-store loader (token.cc) ----
  ld_pc,          \* where Token::New is: "new", "keys", "versions", "objects", "done", "failed"
  generate_certs, \* bool generate_certs
  state_,         \* ObjectStoreState state_: the sequence of AsymmetricKey entries
  allocated_handles_,  \* flat_hash_set<CK_OBJECT_HANDLE> allocated_handles_
  ld_key,         \* the key whose versions LoadVersions is listing
  token_,         \* the objects_ of the Token that Token::New returned (None: no Token)
  rebuilt,        \* the registry of a second LoadObjects of the same snapshot (None: not run)
  tk_found,       \* what the last FindObjects returned
  ld_seen,        \* history: the keys and versions the remote service has listed
  ld_log          \* history: [fault: first step that failed, rpcs: remote calls, skipped]

hm_vars == <<items_, mutex_, hm_pc, hm_frame, hm_last, hm_issued, hm_bound, not_found_rv_, use_count, hm_held>>
tk_vars == <<is_logged_in_, login_mutex_, tk_pc, tk_frame, tk_last, tk_lastOk>>
br_vars == <<heap, br_last>>
ld_vars == <<ld_pc, generate_certs, state_, allocated_handles_, ld_key, token_, rebuilt, tk_found,
             ld_seen, ld_log>>
vars == <<hm_vars, tk_vars, br_vars, ld_vars>>

\* ================================================================ HandleMap

\* RandomHandle(): any value of the handle space.
RandomHandle == Handles

\* items_.contains(handle) / items_.find(handle) != items_.end()
Contains(m, h) == h \in DOMAIN m

\* items_[handle] = item
MapPut(m, h, item) == [x \in (DOMAIN m) \cup {h} |-> IF x = h THEN item ELSE m[x]]

\* items_.try_emplace(handle, item): inserts only when the key is absent
TryEmplace(m, h, item) == IF Contains(m, h) THEN m ELSE MapPut(m, h, item)

\* items_.erase(it)
MapErase(m, h) == [x \in (DOMAIN m) \ {h} |-> m[x]]

EmptyMap == [x \in {} |-> NoItem]

\* absl::WriterMutexLock: exclusive; absl::ReaderMutexLock: shared among readers
CanLockWriter == mutex_.writer = NoThread /\ mutex_.readers = {}
CanLockReader == mutex_.writer = NoThread
WriterLocked(t) == [mutex_ EXCEPT !.writer = t]
WriterUnlocked == [mutex_ EXCEPT !.writer = NoThread]
ReaderLocked(t) == [mutex_ EXCEPT !.readers = @ \cup {t}]
ReaderUnlocked(t) == [mutex_ EXCEPT !.readers = @ \ {t}]

\* rv: the CK_RV carried by a not-found error (None for every other return)
HmReturn(op, h, item, status) ==
  [op |-> op, handle |-> h, item |-> item, status |-> status, rv |-> {},
   results |-> <<>>, predicate |-> {}, sort_compare |-> "nullptr"]

\* The CK_RV values a registry is built with (token.cc line 187 builds the object
\* registry with CKR_OBJECT_HANDLE_INVALID).
NotFoundCodes == {"CKR_OBJECT_HANDLE_INVALID", "CKR_SESSION_HANDLE_INVALID"}

\* Get / Remove reporting one fixed code whatever the registry was built with.
NotFoundRvFixed(status, rv) ==
  IF status = "NOT_FOUND" THEN {"CKR_OBJECT_HANDLE_INVALID"} ELSE {}

\* Get line 93, Remove line 106: HandleNotFoundError(handle, not_found_rv_, ..)
NotFoundRv(status, rv) == IF status = "NOT_FOUND" THEN {rv} ELSE {}

\* History bookkeeping: what the callers have been told.
IssuedAfterInsert(h) == [hm_issued EXCEPT ![h] = IF @ >= 2 THEN 2 ELSE @ + 1]
IssuedAfterRemove(h) == [hm_issued EXCEPT ![h] = IF @ <= -1 THEN -1 ELSE @ - 1]

HmInitWith(rv) ==
  /\ not_found_rv_ = rv
  /\ items_ = EmptyMap
  /\ mutex_ = [writer |-> NoThread, readers |-> {}]
  /\ hm_pc = [t \in Threads |-> "idle"]
  /\ hm_frame = [t \in Threads |-> [handle |-> NoHandle, item |-> NoItem]]
  /\ hm_last = HmReturn("none", NoHandle, NoItem, "OK")
  /\ hm_issued = [h \in Handles |-> 0]
  /\ hm_bound = [h \in Handles |-> NoItem]
  /\ use_count = [i \in Items |-> 0]
  /\ hm_held = [t \in Threads |-> {}]

\* HandleMap(CK_RV not_found_rv), line 20
HmInit == \E rv \in NotFoundCodes : HmInitWith(rv)

\* Add(item), line 24: absl::WriterMutexLock lock(&mutex_)
AddLock(t, item) ==
  /\ hm_pc[t] = "idle"
  /\ use_count[item] = 0      \* std::make_shared<T>(item) is a new object
  /\ CanLockWriter
  /\ mutex_' = WriterLocked(t)
  /\ hm_pc' = [hm_pc EXCEPT ![t] = "Add_loop"]
  /\ hm_frame' = [hm_frame EXCEPT ![t] = [handle |-> NoHandle, item |-> item]]
  /\ UNCHANGED <<items_, hm_last, hm_issued, hm_bound, not_found_rv_, use_count, hm_held>>
  /\ UNCHANGED <<tk_vars, br_vars, ld_vars>>

\* The loop of Add leaving after the first draw.
AddLoopAgainNoCheck(m, h) == FALSE

\* Add, line 31: while (items_.contains(handle))
AddLoopAgain(m, h) == Contains(m, h)

\* Add, lines 29-31: one iteration of do { handle = RandomHandle(); } while (...)
AddDraw(t) ==
  /\ hm_pc[t] = "Add_loop"
  /\ \E h \in RandomHandle :
       /\ hm_frame' = [hm_frame EXCEPT ![t].handle = h]
       /\ hm_pc' = [hm_pc EXCEPT ![t] =
                      IF AddLoopAgain(items_, h) THEN "Add_loop" ELSE "Add_emplace"]
  /\ UNCHANGED <<items_, mutex_, hm_last, hm_issued, hm_bound, not_found_rv_, use_count, hm_held>>
  /\ UNCHANGED <<tk_vars, br_vars, ld_vars>>

\* Add, lines 33-35: try_emplace, return handle (the lock is released on return)
AddEmplace(t) ==
  /\ hm_pc[t] = "Add_emplace"
  /\ LET h == hm_frame[t].handle
         item == hm_frame[t].item
     IN /\ items_' = TryEmplace(items_, h, item)
        /\ hm_last' = HmReturn("Add", h, item, "OK")
        /\ hm_issued' = IssuedAfterInsert(h)
        /\ hm_bound' = [hm_bound EXCEPT ![h] = item]
        /\ use_count' = [use_count EXCEPT ![item] = 1]
  /\ mutex_' = WriterUnlocked
  /\ hm_pc' = [hm_pc EXCEPT ![t] = "idle"]
  /\ hm_frame' = [hm_frame EXCEPT ![t] = [handle |-> NoHandle, item |-> NoItem]]
  /\ UNCHANGED <<tk_vars, br_vars, ld_vars>>
  /\ UNCHANGED <<not_found_rv_, hm_held>>

\* Handing a reference out without taking a share of the object.
SharedCopyNone(c) == c

\* A copy of a std::shared_ptr (items_[handle] = item, line 55; return it->second,
\* line 96) is one more owner of the object.
SharedCopy(c) == c + 1

\* AddDirect(handle, item), line 48: absl::WriterMutexLock lock(&mutex_)
AddDirectLock(t, h, item) ==
  /\ hm_pc[t] = "idle"
  /\ CanLockWriter
  /\ mutex_' = WriterLocked(t)
  /\ hm_pc' = [hm_pc EXCEPT ![t] = "AddDirect"]
  /\ hm_frame' = [hm_frame EXCEPT ![t] = [handle |-> h, item |-> item]]
  /\ UNCHANGED <<items_, hm_last, hm_issued, hm_bound, not_found_rv_, use_count, hm_held>>
  /\ UNCHANGED <<tk_vars, br_vars, ld_vars>>

\* AddDirect overwriting an occupied handle while reporting the error.
AddDirectResultOverwrite(m, h, item) ==
  [status |-> IF Contains(m, h) THEN "INTERNAL" ELSE "OK", items |-> MapPut(m, h, item)]

\* AddDirect putting the item at an occupied handle and reporting success.
AddDirectResultSilent(m, h, item) == [status |-> "OK", items |-> MapPut(m, h, item)]

\* AddDirect, lines 50-56: the status and the map it leaves
AddDirectResult(m, h, item) ==
  IF Contains(m, h)
    THEN [status |-> "INTERNAL", items |-> m]
    ELSE [status |-> "OK", items |-> MapPut(m, h, item)]

\* AddDirect, lines 50-56 under the lock
AddDirectBody(t) ==
  /\ hm_pc[t] = "AddDirect"
  /\ LET h == hm_frame[t].handle
         item == hm_frame[t].item
         r == AddDirectResult(items_, h, item)
     IN /\ items_' = r.items
        /\ hm_last' = HmReturn("AddDirect", h, item, r.status)
        /\ hm_issued' = IF r.status = "OK" THEN IssuedAfterInsert(h) ELSE hm_issued
        /\ hm_bound' = IF r.status = "OK" THEN [hm_bound EXCEPT ![h] = item] ELSE hm_bound
        /\ use_count' = IF r.status = "OK" THEN [use_count EXCEPT ![item] = SharedCopy(@)]
                                           ELSE use_count
  /\ mutex_' = WriterUnlocked
  /\ hm_pc' = [hm_pc EXCEPT ![t] = "idle"]
  /\ hm_frame' = [hm_frame EXCEPT ![t] = [handle |-> NoHandle, item |-> NoItem]]
  /\ UNCHANGED <<tk_vars, br_vars, ld_vars>>
  /\ UNCHANGED <<not_found_rv_, hm_held>>

\* Get(handle), line 89: absl::ReaderMutexLock lock(&mutex_)
GetLock(t, h) ==
  /\ hm_pc[t] = "idle"
  /\ CanLockReader
  /\ mutex_' = ReaderLocked(t)
  /\ hm_pc' = [hm_pc EXCEPT ![t] = "Get"]
  /\ hm_frame' = [hm_frame EXCEPT ![t] = [handle |-> h, item |-> NoItem]]
  /\ UNCHANGED <<items_, hm_last, hm_issued, hm_bound, not_found_rv_, use_count, hm_held>>
  /\ UNCHANGED <<tk_vars, br_vars, ld_vars>>

\* Get, lines 91-96: the StatusOr it returns (NOT_FOUND carries not_found_rv_)
GetResult(m, h) ==
  IF Contains(m, h)
    THEN [status |-> "OK", item |-> m[h]]
    ELSE [status |-> "NOT_FOUND", item |-> NoItem]

\* Get, lines 91-96 under the reader lock. keep: the caller holds on to the
\* shared_ptr it is returned (otherwise it lets go of it at once).
GetReturn(t, keep) ==
  /\ hm_pc[t] = "Get"
  /\ LET h == hm_frame[t].handle
         r == GetResult(items_, h)
     IN /\ hm_last' = [HmReturn("Get", h, r.item, r.status)
                         EXCEPT !.rv = NotFoundRv(r.status, not_found_rv_)]
        /\ keep => (r.status = "OK" /\ r.item \notin hm_held[t])
        /\ use_count' = IF keep THEN [use_count EXCEPT ![r.item] = SharedCopy(@)]
                                ELSE use_count
        /\ hm_held' = IF keep THEN [hm_held EXCEPT ![t] = @ \cup {r.item}] ELSE hm_held
  /\ mutex_' = ReaderUnlocked(t)
  /\ hm_pc' = [hm_pc EXCEPT ![t] = "idle"]
  /\ hm_frame' = [hm_frame EXCEPT ![t] = [handle |-> NoHandle, item |-> NoItem]]
  /\ UNCHANGED <<items_, hm_issued, hm_bound, not_found_rv_>>
  /\ UNCHANGED <<tk_vars, br_vars, ld_vars>>

GetBody(t) == GetReturn(t, FALSE)

GetKeepBody(t) == GetReturn(t, TRUE)

\* A holder lets go of the shared_ptr it got from Get.
Release(t, item) ==
  /\ hm_pc[t] = "idle"
  /\ item \in hm_held[t]
  /\ hm_held' = [hm_held EXCEPT ![t] = @ \ {item}]
  /\ use_count' = [use_count EXCEPT ![item] = @ - 1]
  /\ UNCHANGED <<items_, mutex_, hm_pc, hm_frame, hm_last, hm_issued, hm_bound, not_found_rv_>>
  /\ UNCHANGED <<tk_vars, br_vars, ld_vars>>

\* Remove(handle), line 102: absl::WriterMutexLock lock(&mutex_)
RemoveLock(t, h) ==
  /\ hm_pc[t] = "idle"
  /\ CanLockWriter
  /\ mutex_' = WriterLocked(t)
  /\ hm_pc' = [hm_pc EXCEPT ![t] = "Remove"]
  /\ hm_frame' = [hm_frame EXCEPT ![t] = [handle |-> h, item |-> NoItem]]
  /\ UNCHANGED <<items_, hm_last, hm_issued, hm_bound, not_found_rv_, use_count, hm_held>>
  /\ UNCHANGED <<tk_vars, br_vars, ld_vars>>

\* Remove reporting OK without erasing.
RemoveResultNoErase(m, h) ==
  IF Contains(m, h)
    THEN [status |-> "OK", items |-> m]
    ELSE [status |-> "NOT_FOUND", items |-> m]

\* Remove, lines 104-110: the status and the map it leaves
RemoveResult(m, h) ==
  IF Contains(m, h)
    THEN [status |-> "OK", items |-> MapErase(m, h)]
    ELSE [status |-> "NOT_FOUND", items |-> m]

\* Remove, lines 104-110 under the lock
RemoveBody(t) ==
  /\ hm_pc[t] = "Remove"
  /\ LET h == hm_frame[t].handle
         r == RemoveResult(items_, h)
     IN /\ items_' = r.items
        /\ hm_last' = [HmReturn("Remove", h, NoItem, r.status)
                         EXCEPT !.rv = NotFoundRv(r.status, not_found_rv_)]
        /\ hm_issued' = IF r.status = "OK" THEN IssuedAfterRemove(h) ELSE hm_issued
        /\ hm_bound' = IF r.status = "OK" THEN [hm_bound EXCEPT ![h] = NoItem] ELSE hm_bound
        /\ use_count' = IF r.status = "OK" THEN [use_count EXCEPT ![items_[h]] = @ - 1]
                                           ELSE use_count
  /\ mutex_' = WriterUnlocked
  /\ hm_pc' = [hm_pc EXCEPT ![t] = "idle"]
  /\ hm_frame' = [hm_frame EXCEPT ![t] = [handle |-> NoHandle, item |-> NoItem]]
  /\ UNCHANGED <<tk_vars, br_vars, ld_vars>>
  /\ UNCHANGED <<not_found_rv_, hm_held>>

HmNext ==
  \E t \in Threads :
    \/ \E item \in Items : AddLock(t, item)
    \/ AddDraw(t)
    \/ AddEmplace(t)
    \/ \E h \in Handles, item \in Items : AddDirectLock(t, h, item)
    \/ AddDirectBody(t)
    \/ \E h \in Handles : GetLock(t, h)
    \/ GetBody(t)
    \/ \E h \in Handles : RemoveLock(t, h)
    \/ RemoveBody(t)

\* for (auto it : items_): absl::flat_hash_map iterates in an unspecified order, so
\* the matching handles may be pushed back in any order.
IterationOrders(S) ==
  {f \in [1..Cardinality(S) -> S] : \A i, j \in 1..Cardinality(S) : i # j => f[i] # f[j]}

\* The comparators Find is called with (nullptr: none); each is a strict weak
\* ordering of the items, as std::sort requires.
Comparators == {"nullptr", "less", "greater"}

sort_compare(cmp, a, b) == IF cmp = "less" THEN a < b ELSE b < a

\* std::sort step on a short range (insertion): x moves towards the front past
\* every element it is ordered before.
RECURSIVE SortInsert(_, _, _)
SortInsert(s, x, less) ==
  IF s = <<>> THEN <<x>>
  ELSE IF less[x, s[Len(s)]]
         THEN Append(SortInsert(SubSeq(s, 1, Len(s) - 1), x, less), s[Len(s)])
         ELSE Append(s, x)

\* Find returning the handles in the order the iteration produced them.
StdSortSkipped(s, less) == s

\* std::sort(results.begin(), results.end(), less), lines 75-80
RECURSIVE StdSort(_, _)
StdSort(s, less) ==
  IF s = <<>> THEN <<>>
  ELSE SortInsert(StdSort(SubSeq(s, 1, Len(s) - 1), less), s[Len(s)], less)

\* Find, lines 67-83: the vector returned for one iteration order of the map
FindResult(m, predicate, cmp, order) ==
  IF cmp = "nullptr" THEN order
  ELSE StdSort(order, [h1 \in Handles, h2 \in Handles |->
                         IF Contains(m, h1) /\ Contains(m, h2)
                           THEN sort_compare(cmp, m[h1], m[h2]) ELSE FALSE])

\* Find(predicate, sort_compare), lines 62-84.  The reader lock is held from entry to
\* return; predicate is given as the set of items it accepts.
Find(t, predicate, cmp) ==
  /\ hm_pc[t] = "idle"
  /\ CanLockReader
  /\ \E order \in IterationOrders({h \in Handles : Contains(items_, h) /\ items_[h] \in predicate}) :
       hm_last' = [HmReturn("Find", NoHandle, NoItem, "OK")
                     EXCEPT !.results = FindResult(items_, predicate, cmp, order),
                            !.predicate = predicate,
                            !.sort_compare = cmp]
  /\ UNCHANGED <<items_, mutex_, hm_pc, hm_frame, hm_issued, hm_bound, not_found_rv_, use_count, hm_held>>
  /\ UNCHANGED <<tk_vars, br_vars, ld_vars>>

\* The registry with searches.
FindNext ==
  \/ HmNext
  \/ \E t \in Threads, predicate \in SUBSET Items, cmp \in Comparators : Find(t, predicate, cmp)

\* The registry with callers that hold on to what Get returns.
HoldNext ==
  \/ HmNext
  \/ \E t \in Threads : GetKeepBody(t)
  \/ \E t \in Threads, item \in Items : Release(t, item)


\* Find entered without taking the lock.
FindLockNone(t, predicate, cmp) ==
  /\ hm_pc[t] = "idle"
  /\ hm_pc' = [hm_pc EXCEPT ![t] = "Find_scan"]
  /\ hm_frame' = [hm_frame EXCEPT ![t] =
                    [handle |-> NoHandle, item |-> NoItem, predicate |-> predicate,
                     sort_compare |-> cmp, results |-> <<>>, seen |-> items_]]
  /\ UNCHANGED <<items_, mutex_, hm_last, hm_issued, hm_bound, not_found_rv_, use_count, hm_held>>
  /\ UNCHANGED <<tk_vars, br_vars, ld_vars>>

\* Find, line 65: absl::ReaderMutexLock lock(&mutex_).  `seen` is history: the map at
\* the instant the lock was taken.
FindLock(t, predicate, cmp) ==
  /\ hm_pc[t] = "idle"
  /\ CanLockReader
  /\ mutex_' = ReaderLocked(t)
  /\ hm_pc' = [hm_pc EXCEPT ![t] = "Find_scan"]
  /\ hm_frame' = [hm_frame EXCEPT ![t] =
                    [handle |-> NoHandle, item |-> NoItem, predicate |-> predicate,
                     sort_compare |-> cmp, results |-> <<>>, seen |-> items_]]
  /\ UNCHANGED <<items_, hm_last, hm_issued, hm_bound, not_found_rv_, use_count, hm_held>>
  /\ UNCHANGED <<tk_vars, br_vars, ld_vars>>

\* Find, lines 67-72: for (auto it : items_) if (predicate(*it.second)) push_back
FindScan(t) ==
  /\ hm_pc[t] = "Find_scan"
  /\ \E order \in IterationOrders({h \in Handles : Contains(items_, h)
                                     /\ items_[h] \in hm_frame[t].predicate}) :
       hm_frame' = [hm_frame EXCEPT ![t].results = order]
  /\ hm_pc' = [hm_pc EXCEPT ![t] = "Find_sort"]
  /\ UNCHANGED <<items_, mutex_, hm_last, hm_issued, hm_bound, not_found_rv_, use_count, hm_held>>
  /\ UNCHANGED <<tk_vars, br_vars, ld_vars>>

\* Find, lines 74-83: the sort and the return, which releases the lock.  The lambda
\* of the sort reads items_.at(h) for the handles of results: at() throws
\* std::out_of_range for a handle the map no longer holds.
FindSort(t) ==
  /\ hm_pc[t] = "Find_sort"
  /\ LET f == hm_frame[t]
         sorts == f.sort_compare # "nullptr" /\ Len(f.results) > 1
         thrown == sorts /\ \E i \in 1..Len(f.results) : ~Contains(items_, f.results[i])
     IN hm_last' = [HmReturn("Find", NoHandle, NoItem,
                             IF thrown THEN "out_of_range" ELSE "OK")
                      EXCEPT !.results = IF thrown THEN <<>>
                                         ELSE FindResult(items_, f.predicate, f.sort_compare,
                                                         f.results),
                             !.predicate = f.predicate,
                             !.sort_compare = f.sort_compare]
  /\ mutex_' = ReaderUnlocked(t)
  /\ hm_pc' = [hm_pc EXCEPT ![t] = "idle"]
  /\ hm_frame' = [hm_frame EXCEPT ![t] = [handle |-> NoHandle, item |-> NoItem]]
  /\ UNCHANGED <<items_, hm_issued, hm_bound, not_found_rv_, use_count, hm_held>>
  /\ UNCHANGED <<tk_vars, br_vars, ld_vars>>

\* The registry with searches that other threads' calls interleave with.
FindStepsNext ==
  \/ HmNext
  \/ \E t \in Threads, predicate \in SUBSET Items, cmp \in Comparators : FindLock(t, predicate, cmp)
  \/ \E t \in Threads : FindScan(t)
  \/ \E t \in Threads : FindSort(t)

\* ==================================================================== Token

\* CK_USER_TYPE values passed to Login; CKU_OTHER stands for every value that is
\* none of the three named ones.
UserTypes == {"CKU_SO", "CKU_USER", "CKU_CONTEXT_SPECIFIC", "CKU_OTHER"}

\* absl::Status as (absl status code, CK_RV)
Status(code, ckr) == [code |-> code, ckr |-> ckr]
OkStatus == Status("kOk", "CKR_OK")

TkReturn(op, user, status, value) ==
  [op |-> op, user |-> user, status |-> status, value |-> value]

TkInit ==
  /\ is_logged_in_ = FALSE
  /\ login_mutex_ = [writer |-> NoThread, readers |-> {}]
  /\ tk_pc = [t \in Threads |-> "idle"]
  /\ tk_frame = [t \in Threads |-> "none"]
  /\ tk_last = TkReturn("none", "none", OkStatus, FALSE)
  /\ tk_lastOk = "none"

\* The switch with the security officer falling through to the login.
LoginUserCheckSoAllowed(user) ==
  IF user \in {"CKU_USER", "CKU_SO"} THEN OkStatus
  ELSE IF user = "CKU_CONTEXT_SPECIFIC"
    THEN Status("kPermissionDenied", "CKR_OPERATION_NOT_INITIALIZED")
  ELSE Status("kInvalidArgument", "CKR_USER_TYPE_INVALID")

\* Token::Login, lines 241-258: the switch on the user type (OkStatus: falls through)
LoginUserCheck(user) ==
  IF user = "CKU_USER" THEN OkStatus
  ELSE IF user = "CKU_SO" THEN Status("kPermissionDenied", "CKR_PIN_LOCKED")
  ELSE IF user = "CKU_CONTEXT_SPECIFIC"
    THEN Status("kPermissionDenied", "CKR_OPERATION_NOT_INITIALIZED")
  ELSE Status("kInvalidArgument", "CKR_USER_TYPE_INVALID")

\* The locked part of Login without the already-logged-in check.
LoginLockedNoCheck(logged_in) == [status |-> OkStatus, logged_in |-> TRUE]

\* Token::Login, lines 261-266: under the lock
LoginLocked(logged_in) ==
  IF logged_in
    THEN [status |-> Status("kFailedPrecondition", "CKR_USER_ALREADY_LOGGED_IN"),
          logged_in |-> logged_in]
    ELSE [status |-> OkStatus, logged_in |-> TRUE]

\* Token::Logout, lines 271-276: under the lock
LogoutLocked(logged_in) ==
  IF ~logged_in
    THEN [status |-> Status("kFailedPrecondition", "CKR_USER_NOT_LOGGED_IN"),
          logged_in |-> logged_in]
    ELSE [status |-> OkStatus, logged_in |-> FALSE]

TkCanLockWriter == login_mutex_.writer = NoThread /\ login_mutex_.readers = {}
TkCanLockReader == login_mutex_.writer = NoThread

\* Login going on to the flag without taking the lock.
LoginEnterNoLock(t, user) ==
  /\ tk_pc[t] = "idle"
  /\ LET st == LoginUserCheck(user)
     IN IF st = OkStatus
          THEN /\ tk_pc' = [tk_pc EXCEPT ![t] = "Login"]
               /\ tk_frame' = [tk_frame EXCEPT ![t] = user]
               /\ UNCHANGED <<login_mutex_, tk_last>>
          ELSE /\ tk_last' = TkReturn("Login", user, st, FALSE)
               /\ UNCHANGED <<login_mutex_, tk_pc, tk_frame>>
  /\ UNCHANGED <<is_logged_in_, tk_lastOk>>
  /\ UNCHANGED <<hm_vars, br_vars, ld_vars>>

\* Token::Login(user), lines 241-260: the switch; a rejected role returns at once,
\* CKU_USER goes on to take the writer lock.
LoginEnter(t, user) ==
  /\ tk_pc[t] = "idle"
  /\ LET st == LoginUserCheck(user)
     IN IF st = OkStatus
          THEN /\ TkCanLockWriter
               /\ login_mutex_' = [login_mutex_ EXCEPT !.writer = t]
               /\ tk_pc' = [tk_pc EXCEPT ![t] = "Login"]
               /\ tk_frame' = [tk_frame EXCEPT ![t] = user]
               /\ tk_last' = tk_last
          ELSE /\ tk_last' = TkReturn("Login", user, st, FALSE)
               /\ UNCHANGED <<login_mutex_, tk_pc, tk_frame>>
  /\ UNCHANGED <<is_logged_in_, tk_lastOk>>
  /\ UNCHANGED <<hm_vars, br_vars, ld_vars>>

\* Token::Login, lines 261-266, and the release of the lock on return
LoginBody(t) ==
  /\ tk_pc[t] = "Login"
  /\ LET r == LoginLocked(is_logged_in_)
     IN /\ is_logged_in_' = r.logged_in
        /\ tk_last' = TkReturn("Login", tk_frame[t], r.status, FALSE)
        /\ tk_lastOk' = IF r.status = OkStatus THEN "Login" ELSE tk_lastOk
  /\ login_mutex_' = [login_mutex_ EXCEPT !.writer = NoThread]
  /\ tk_pc' = [tk_pc EXCEPT ![t] = "idle"]
  /\ tk_frame' = [tk_frame EXCEPT ![t] = "none"]
  /\ UNCHANGED <<hm_vars, br_vars, ld_vars>>

\* Token::Logout, line 270: absl::WriterMutexLock l(&login_mutex_)
LogoutLock(t) ==
  /\ tk_pc[t] = "idle"
  /\ TkCanLockWriter
  /\ login_mutex_' = [login_mutex_ EXCEPT !.writer = t]
  /\ tk_pc' = [tk_pc EXCEPT ![t] = "Logout"]
  /\ UNCHANGED <<is_logged_in_, tk_frame, tk_last, tk_lastOk>>
  /\ UNCHANGED <<hm_vars, br_vars, ld_vars>>

\* Token::Logout, lines 271-276, and the release of the lock on return
LogoutBody(t) ==
  /\ tk_pc[t] = "Logout"
  /\ LET r == LogoutLocked(is_logged_in_)
     IN /\ is_logged_in_' = r.logged_in
        /\ tk_last' = TkReturn("Logout", "none", r.status, FALSE)
        /\ tk_lastOk' = IF r.status = OkStatus THEN "Logout" ELSE tk_lastOk
  /\ login_mutex_' = [login_mutex_ EXCEPT !.writer = NoThread]
  /\ tk_pc' = [tk_pc EXCEPT ![t] = "idle"]
  /\ tk_frame' = tk_frame
  /\ UNCHANGED <<hm_vars, br_vars, ld_vars>>

\* Token::is_logged_in, line 236: absl::ReaderMutexLock l(&login_mutex_)
IsLoggedInLock(t) ==
  /\ tk_pc[t] = "idle"
  /\ TkCanLockReader
  /\ login_mutex_' = [login_mutex_ EXCEPT !.readers = @ \cup {t}]
  /\ tk_pc' = [tk_pc EXCEPT ![t] = "is_logged_in"]
  /\ UNCHANGED <<is_logged_in_, tk_frame, tk_last, tk_lastOk>>
  /\ UNCHANGED <<hm_vars, br_vars, ld_vars>>

\* Token::is_logged_in, line 237: return is_logged_in_
IsLoggedInBody(t) ==
  /\ tk_pc[t] = "is_logged_in"
  /\ tk_last' = TkReturn("is_logged_in", "none", OkStatus, is_logged_in_)
  /\ login_mutex_' = [login_mutex_ EXCEPT !.readers = @ \ {t}]
  /\ tk_pc' = [tk_pc EXCEPT ![t] = "idle"]
  /\ UNCHANGED <<is_logged_in_, tk_frame, tk_lastOk>>
  /\ UNCHANGED <<hm_vars, br_vars, ld_vars>>

TkNext ==
  \E t \in Threads :
    \/ \E user \in UserTypes : LoginEnter(t, user)
    \/ LoginBody(t)
    \/ LogoutLock(t)
    \/ LogoutBody(t)
    \/ IsLoggedInLock(t)
    \/ IsLoggedInBody(t)


\* Token::Login, lines 261-264: the read of is_logged_in_; the error return releases
\* the lock.
LoginCheck(t) ==
  /\ tk_pc[t] = "Login"
  /\ IF LoginLocked(is_logged_in_).status # OkStatus
       THEN /\ tk_last' = TkReturn("Login", tk_frame[t], LoginLocked(is_logged_in_).status, FALSE)
            /\ login_mutex_' = [login_mutex_ EXCEPT !.writer = NoThread]
            /\ tk_pc' = [tk_pc EXCEPT ![t] = "idle"]
            /\ tk_frame' = [tk_frame EXCEPT ![t] = "none"]
       ELSE /\ tk_pc' = [tk_pc EXCEPT ![t] = "Login_set"]
            /\ UNCHANGED <<login_mutex_, tk_frame, tk_last>>
  /\ UNCHANGED <<is_logged_in_, tk_lastOk>>
  /\ UNCHANGED <<hm_vars, br_vars, ld_vars>>

\* Token::Login, lines 265-266: is_logged_in_ = true; return OkStatus
LoginSet(t) ==
  /\ tk_pc[t] = "Login_set"
  /\ is_logged_in_' = TRUE
  /\ tk_last' = TkReturn("Login", tk_frame[t], OkStatus, FALSE)
  /\ tk_lastOk' = "Login"
  /\ login_mutex_' = [login_mutex_ EXCEPT !.writer = NoThread]
  /\ tk_pc' = [tk_pc EXCEPT ![t] = "idle"]
  /\ tk_frame' = [tk_frame EXCEPT ![t] = "none"]
  /\ UNCHANGED <<hm_vars, br_vars, ld_vars>>

\* Token::Logout, lines 271-274: the read of is_logged_in_; the error return releases
\* the lock.
LogoutCheck(t) ==
  /\ tk_pc[t] = "Logout"
  /\ IF LogoutLocked(is_logged_in_).status # OkStatus
       THEN /\ tk_last' = TkReturn("Logout", "none", LogoutLocked(is_logged_in_).status, FALSE)
            /\ login_mutex_' = [login_mutex_ EXCEPT !.writer = NoThread]
            /\ tk_pc' = [tk_pc EXCEPT ![t] = "idle"]
       ELSE /\ tk_pc' = [tk_pc EXCEPT ![t] = "Logout_set"]
            /\ UNCHANGED <<login_mutex_, tk_last>>
  /\ UNCHANGED <<is_logged_in_, tk_frame, tk_lastOk>>
  /\ UNCHANGED <<hm_vars, br_vars, ld_vars>>

\* Token::Logout, lines 275-276: is_logged_in_ = false; return OkStatus
LogoutSet(t) ==
  /\ tk_pc[t] = "Logout_set"
  /\ is_logged_in_' = FALSE
  /\ tk_last' = TkReturn("Logout", "none", OkStatus, FALSE)
  /\ tk_lastOk' = "Logout"
  /\ login_mutex_' = [login_mutex_ EXCEPT !.writer = NoThread]
  /\ tk_pc' = [tk_pc EXCEPT ![t] = "idle"]
  /\ UNCHANGED tk_frame
  /\ UNCHANGED <<hm_vars, br_vars, ld_vars>>

\* Threads calling Login, Logout and is_logged_in, the flag read and written in
\* separate steps.
TokenStepsNext ==
  \/ \E t \in Threads, user \in UserTypes : LoginEnter(t, user)
  \/ \E t \in Threads : LoginCheck(t)
  \/ \E t \in Threads : LoginSet(t)
  \/ \E t \in Threads : LogoutLock(t)
  \/ \E t \in Threads : LogoutCheck(t)
  \/ \E t \in Threads : LogoutSet(t)
  \/ \E t \in Threads : IsLoggedInLock(t)
  \/ \E t \in Threads : IsLoggedInBody(t)



\* ========================================================== Provider bridge

Addr == 1..MaxAddr
\* What a caller can pass as NCRYPT_PROV_HANDLE / NCRYPT_KEY_HANDLE: 0 or any address.
HandleArgs == {NoHandle} \cup Addr

\* A null pointer argument (names and string arguments are strings).
NULL == "NULL"
\* An optional value: {} is "none / null / not written", {v} is v.
None == {}
Some(v) == {v}

\* dwFlags as the set of its bits.
NoFlags == {}
Silent == {"NCRYPT_SILENT_FLAG"}
SilentMachineKey == {"NCRYPT_SILENT_FLAG", "NCRYPT_MACHINE_KEY_FLAG"}
PersistOnly == {"NCRYPT_PERSIST_ONLY_FLAG"}
SilentPersistOnly == {"NCRYPT_SILENT_FLAG", "NCRYPT_PERSIST_ONLY_FLAG"}

kProviderName == "kProviderName"

\* Property values are byte strings.
ImplTypeValue == <<1, 0, 0, 0>>
DefaultEndpoint == <<7>>
OtherEndpoint == <<8, 9>>
DefaultCredentials == <<3>>
InsecureCredentials == <<4, 5>>

\* A free cell remembers (history) whether `delete` last took a Provider from it.
FreeCell(freedProvider) == [kind |-> "free", freedProvider |-> freedProvider]
NewProvider ==
  [kind |-> "provider", impl_type |-> ImplTypeValue, endpoint |-> DefaultEndpoint,
   credentials |-> DefaultCredentials]
\* `orphan` is history: the Provider this Object was opened under has been freed.
NewObject(hProvider, name) ==
  [kind |-> "object", prov |-> hProvider, name |-> name, orphan |-> FALSE]

LiveProvider(h) == h \in Addr /\ heap[h].kind = "provider"
LiveObject(h) == h \in Addr /\ heap[h].kind = "object"

\* History kept with each return: what the handles of the call were, in the state the
\* call was made in.
\*   provider handle: "zero", "freed" (a Provider was deleted there and the address has
\*     not been handed out again), "dead" (any other value that is no live Provider),
\*     or live, and then for the calls that take a key handle
\*   key handle: "nokey" (zero or no live Object), "foreign" (a live Object opened
\*     under another provider handle), "owner" (opened under this provider handle);
\*     for the calls that take no key handle: "live".
ProviderCase(hProvider) ==
  IF hProvider = NoHandle THEN "zero"
  ELSE IF LiveProvider(hProvider) THEN "live"
  ELSE IF heap[hProvider].kind = "free" /\ heap[hProvider].freedProvider THEN "freed"
  ELSE "dead"
KeyCase(hProvider, hKey) ==
  IF ProviderCase(hProvider) # "live" THEN ProviderCase(hProvider)
  ELSE IF ~LiveObject(hKey) THEN "nokey"
  ELSE IF heap[hKey].prov = hProvider THEN "owner"
  ELSE "foreign"
IsOrphan(hKey) == LiveObject(hKey) /\ heap[hKey].orphan
\* ... and which argument checks the call broke: "c" a null or unsupported pointer /
\* selector argument, "d" a flags word outside the entry point's allow-list.
ArgCase(c, d) == {x \in {"c", "d"} : (x = "c" /\ c) \/ (x = "d" /\ d)}

\* What a call leaves behind for the caller: the status, the handle written through
\* phProvider / phKey, *pcbResult, the output buffer, and the remote sign request made.
BrReturn(op, status, handle, cbResult, output, remote) ==
  [op |-> op, status |-> status, handle |-> handle, cbResult |-> cbResult,
   output |-> output, remote |-> remote,
   handles |-> "none", orphan |-> FALSE, args |-> {}]
BrFail(op, status) == BrReturn(op, status, None, None, None, None)
\* The argument checks are recorded for the calls whose handles resolve: for the
\* others the handles alone decide what the call has to return.
WithCase(ret, handles, orphan, args) ==
  [ret EXCEPT !.handles = handles, !.orphan = orphan,
              !.args = IF handles \in {"none", "live", "owner"} THEN args ELSE {}]

BrInit ==
  /\ heap = [a \in Addr |-> FreeCell(FALSE)]
  /\ br_last = BrFail("none", "OK")

\* A flags check that looks for the silent bit only.
ValidateFlagsSilentBit(flags) ==
  IF flags # {} /\ "NCRYPT_SILENT_FLAG" \notin flags THEN "NTE_BAD_FLAGS" ELSE "OK"

\* ValidateFlags, bridge.cc lines 34-41
ValidateFlags(flags) ==
  IF flags # {} /\ flags # {"NCRYPT_SILENT_FLAG"} THEN "NTE_BAD_FLAGS" ELSE "OK"

\* ValidateProviderHandle (kmscng/provider.h): rejects the zero handle and every
\* handle that does not resolve to a live Provider.
ValidateProviderHandle(hProvider) ==
  IF hProvider = NoHandle THEN "NTE_INVALID_HANDLE"
  ELSE IF heap[hProvider].kind # "provider" THEN "NTE_INVALID_HANDLE"
  ELSE "OK"

\* ValidateKeyHandle (kmscng/object.h): the provider handle, then the key handle, then
\* the Object's back-reference to the provider handle it was opened under.
ValidateKeyHandle(hProvider, hKey) ==
  IF ValidateProviderHandle(hProvider) # "OK" THEN "NTE_INVALID_HANDLE"
  ELSE IF hKey = NoHandle THEN "NTE_INVALID_HANDLE"
  ELSE IF heap[hKey].kind # "object" THEN "NTE_INVALID_HANDLE"
  ELSE IF heap[hKey].prov # hProvider THEN "NTE_INVALID_HANDLE"
  ELSE "OK"

\* Provider::GetProperty (kmscng/provider.h): the stored value, or not-supported
ProviderGetProperty(prov, name) ==
  IF name = "NCRYPT_IMPL_TYPE_PROPERTY" THEN [status |-> "OK", value |-> prov.impl_type]
  ELSE IF name = "kEndpointAddressProperty" THEN [status |-> "OK", value |-> prov.endpoint]
  ELSE IF name = "kChannelCredentialsProperty"
    THEN [status |-> "OK", value |-> prov.credentials]
  ELSE [status |-> "NTE_NOT_SUPPORTED", value |-> <<>>]

\* Provider::SetProperty storing the value under both mutable properties.
ProviderSetPropertyBoth(prov, name, value) ==
  IF name = "NCRYPT_IMPL_TYPE_PROPERTY" THEN [status |-> "NTE_INVALID_PARAMETER", prov |-> prov]
  ELSE IF name \in {"kEndpointAddressProperty", "kChannelCredentialsProperty"}
    THEN [status |-> "OK", prov |-> [prov EXCEPT !.endpoint = value, !.credentials = value]]
  ELSE [status |-> "NTE_NOT_SUPPORTED", prov |-> prov]

\* Provider::SetProperty storing the fixed property like the others.
ProviderSetPropertyFixedWritable(prov, name, value) ==
  IF name = "NCRYPT_IMPL_TYPE_PROPERTY"
    THEN [status |-> "OK", prov |-> [prov EXCEPT !.impl_type = value]]
  ELSE IF name = "kEndpointAddressProperty"
    THEN [status |-> "OK", prov |-> [prov EXCEPT !.endpoint = value]]
  ELSE IF name = "kChannelCredentialsProperty"
    THEN [status |-> "OK", prov |-> [prov EXCEPT !.credentials = value]]
  ELSE [status |-> "NTE_NOT_SUPPORTED", prov |-> prov]

\* Provider::SetProperty (kmscng/provider.h): unknown name, fixed property, or store
ProviderSetProperty(prov, name, value) ==
  IF name = "NCRYPT_IMPL_TYPE_PROPERTY" THEN [status |-> "NTE_INVALID_PARAMETER", prov |-> prov]
  ELSE IF name = "kEndpointAddressProperty"
    THEN [status |-> "OK", prov |-> [prov EXCEPT !.endpoint = value]]
  ELSE IF name = "kChannelCredentialsProperty"
    THEN [status |-> "OK", prov |-> [prov EXCEPT !.credentials = value]]
  ELSE [status |-> "NTE_NOT_SUPPORTED", prov |-> prov]

\* The buffer-query tail shared by GetProviderProperty (lines 93-110) and
\* GetKeyProperty (lines 201-218): *pcbResult is written first.
CopyOutNoExactFit(op, value, pbOutputNull, cbOutput) ==
  IF pbOutputNull THEN BrReturn(op, "OK", None, Some(Len(value)), None, None)
  ELSE IF cbOutput <= Len(value)
    THEN BrReturn(op, "NTE_BUFFER_TOO_SMALL", None, Some(Len(value)), None, None)
  ELSE BrReturn(op, "OK", None, Some(Len(value)), Some(value), None)

\* The buffer-query tail with the part of the value that fits copied to a buffer that
\* is too small.
CopyOutTruncating(op, value, pbOutputNull, cbOutput) ==
  IF pbOutputNull THEN BrReturn(op, "OK", None, Some(Len(value)), None, None)
  ELSE IF cbOutput < Len(value)
    THEN BrReturn(op, "NTE_BUFFER_TOO_SMALL", None, Some(Len(value)),
                  Some(SubSeq(value, 1, cbOutput)), None)
  ELSE BrReturn(op, "OK", None, Some(Len(value)), Some(value), None)

CopyOut(op, value, pbOutputNull, cbOutput) ==
  IF pbOutputNull THEN BrReturn(op, "OK", None, Some(Len(value)), None, None)
  ELSE IF cbOutput < Len(value)
    THEN BrReturn(op, "NTE_BUFFER_TOO_SMALL", None, Some(Len(value)), None, None)
  ELSE BrReturn(op, "OK", None, Some(Len(value)), Some(value), None)

\* The OpenProvider checks with a null name taken as a request for the default provider.
OpenProviderChecksNullName(phProviderNull, pszProviderName, dwFlags) ==
  IF phProviderNull THEN "NTE_INVALID_PARAMETER"
  ELSE IF pszProviderName # NULL /\ pszProviderName # kProviderName
    THEN "NTE_INVALID_PARAMETER"
  ELSE ValidateFlags(dwFlags)

\* OpenProvider, bridge.cc lines 48-58: the checks before `new Provider()`
OpenProviderChecks(phProviderNull, pszProviderName, dwFlags) ==
  IF phProviderNull THEN "NTE_INVALID_PARAMETER"
  ELSE IF pszProviderName = NULL \/ pszProviderName # kProviderName
    THEN "NTE_INVALID_PARAMETER"
  ELSE ValidateFlags(dwFlags)

\* OpenProvider clearing the caller's handle when it fails.
OpenProviderZeroing(phProviderNull, pszProviderName, dwFlags) ==
  LET st == OpenProviderChecks(phProviderNull, pszProviderName, dwFlags)
      args == ArgCase(phProviderNull \/ pszProviderName # kProviderName,
                      ValidateFlags(dwFlags) # "OK")
  IN /\ IF st # "OK"
          THEN /\ br_last' = [WithCase(BrFail("OpenProvider", st), "none", FALSE, args)
                                EXCEPT !.handle = IF phProviderNull THEN None
                                                  ELSE Some(NoHandle)]
               /\ heap' = heap
          ELSE \E a \in Addr :
                 /\ heap[a].kind = "free"
                 /\ heap' = [heap EXCEPT ![a] = NewProvider]
                 /\ br_last' = WithCase(
                      BrReturn("OpenProvider", "OK", Some(a), None, None, None),
                      "none", FALSE, args)
     /\ UNCHANGED <<hm_vars, tk_vars, ld_vars>>

\* OpenProvider, bridge.cc lines 46-62; `new` returns the address of any free cell
OpenProvider(phProviderNull, pszProviderName, dwFlags) ==
  LET st == OpenProviderChecks(phProviderNull, pszProviderName, dwFlags)
      args == ArgCase(phProviderNull \/ pszProviderName # kProviderName,
                      ValidateFlags(dwFlags) # "OK")
  IN /\ IF st # "OK"
          THEN /\ br_last' = WithCase(BrFail("OpenProvider", st), "none", FALSE, args)
               /\ heap' = heap
          ELSE \E a \in Addr :
                 /\ heap[a].kind = "free"
                 /\ heap' = [heap EXCEPT ![a] = NewProvider]
                 /\ br_last' = WithCase(
                      BrReturn("OpenProvider", "OK", Some(a), None, None, None),
                      "none", FALSE, args)
     /\ UNCHANGED <<hm_vars, tk_vars, ld_vars>>

\* FreeProvider, bridge.cc lines 66-70: `delete prov` and nothing else; the Objects
\* opened under the handle stay where they are (their `orphan` history is set).
FreeProvider(hProvider) ==
  /\ IF ValidateProviderHandle(hProvider) # "OK"
       THEN /\ br_last' = WithCase(BrFail("FreeProvider", ValidateProviderHandle(hProvider)),
                                   ProviderCase(hProvider), FALSE, {})
            /\ heap' = heap
       ELSE /\ br_last' = WithCase(BrFail("FreeProvider", "OK"),
                                   ProviderCase(hProvider), FALSE, {})
            /\ heap' = [a \in Addr |->
                 IF a = hProvider THEN FreeCell(TRUE)
                 ELSE IF heap[a].kind = "object" /\ heap[a].prov = hProvider
                   THEN [heap[a] EXCEPT !.orphan = TRUE]
                 ELSE heap[a]]
  /\ UNCHANGED <<hm_vars, tk_vars, ld_vars>>

\* GetProviderProperty, bridge.cc lines 80-110
GetProviderPropertyResult(hProvider, pszProperty, pbOutputNull, cbOutput, pcbResultNull, dwFlags) ==
  LET op == "GetProviderProperty"
  IN IF ValidateProviderHandle(hProvider) # "OK"
       THEN BrFail(op, ValidateProviderHandle(hProvider))
     ELSE IF pszProperty = NULL THEN BrFail(op, "NTE_INVALID_PARAMETER")
     ELSE IF pcbResultNull THEN BrFail(op, "NTE_INVALID_PARAMETER")
     ELSE IF ValidateFlags(dwFlags) # "OK" THEN BrFail(op, ValidateFlags(dwFlags))
     ELSE LET r == ProviderGetProperty(heap[hProvider], pszProperty)
          IN IF r.status # "OK" THEN BrFail(op, r.status)
             ELSE CopyOut(op, r.value, pbOutputNull, cbOutput)

\* GetProviderProperty, bridge.cc lines 74-111
GetProviderProperty(hProvider, pszProperty, pbOutputNull, cbOutput, pcbResultNull, dwFlags) ==
  /\ br_last' = WithCase(
       GetProviderPropertyResult(hProvider, pszProperty, pbOutputNull, cbOutput,
                                 pcbResultNull, dwFlags),
       ProviderCase(hProvider), FALSE,
       ArgCase(pszProperty = NULL \/ pcbResultNull, ValidateFlags(dwFlags) # "OK"))
  /\ heap' = heap
  /\ UNCHANGED <<hm_vars, tk_vars, ld_vars>>

\* SetProviderProperty, bridge.cc lines 119-131: the status and the Provider it leaves
SetProviderPropertyResult(hProvider, pszProperty, pbInput, dwFlags) ==
  IF ValidateProviderHandle(hProvider) # "OK"
    THEN [status |-> ValidateProviderHandle(hProvider), heap |-> heap]
  ELSE IF pszProperty = NULL THEN [status |-> "NTE_INVALID_PARAMETER", heap |-> heap]
  ELSE IF pbInput = None THEN [status |-> "NTE_INVALID_PARAMETER", heap |-> heap]
  ELSE IF ValidateFlags(dwFlags) # "OK" THEN [status |-> ValidateFlags(dwFlags), heap |-> heap]
  ELSE LET r == ProviderSetProperty(heap[hProvider], pszProperty,
                                    CHOOSE v \in pbInput : TRUE)
       IN [status |-> r.status, heap |-> [heap EXCEPT ![hProvider] = r.prov]]

\* SetProviderProperty, bridge.cc lines 115-132
SetProviderProperty(hProvider, pszProperty, pbInput, dwFlags) ==
  LET r == SetProviderPropertyResult(hProvider, pszProperty, pbInput, dwFlags)
  IN /\ br_last' = WithCase(
          BrFail("SetProviderProperty", r.status), ProviderCase(hProvider), FALSE,
          ArgCase(pszProperty = NULL \/ pbInput = None, ValidateFlags(dwFlags) # "OK"))
     /\ heap' = r.heap
     /\ UNCHANGED <<hm_vars, tk_vars, ld_vars>>

\* The key versions the remote service has, by name (the fixtures of bridge_test.cc):
\* a hardware EC P-256 signing key, a hardware key of an algorithm the provider does
\* not support, and a software-protected EC P-256 signing key.
KmsKeyVersions ==
  [ckv_ec_p256_hsm |-> [algorithm |-> "EC_SIGN_P256_SHA256", protection_level |-> "HSM"],
   ckv_unsupported |-> [algorithm |-> "RSA_SIGN_RAW_PKCS1_2048", protection_level |-> "HSM"],
   ckv_software |-> [algorithm |-> "EC_SIGN_P256_SHA256", protection_level |-> "SOFTWARE"]]

\* The supported set without the protection level.
KeySupportedAnyProtection(ckv) == ckv.algorithm = "EC_SIGN_P256_SHA256"

\* The supported set: hardware protection and an algorithm with algorithm details.
KeySupported(ckv) ==
  ckv.protection_level = "HSM" /\ ckv.algorithm = "EC_SIGN_P256_SHA256"

\* Object::New (kmscng/object.h): validates the provider handle, looks the key version
\* up at the remote service and checks that its algorithm and protection level are
\* supported; the Object it makes keeps the provider handle it was opened under.
ObjectNewStatusAnyKey(hProvider, name) ==
  IF ValidateProviderHandle(hProvider) # "OK" THEN ValidateProviderHandle(hProvider)
  ELSE IF name \notin DOMAIN KmsKeyVersions THEN "NTE_BAD_KEYSET"
  ELSE "OK"

ObjectNewStatus(hProvider, name) ==
  IF ValidateProviderHandle(hProvider) # "OK" THEN ValidateProviderHandle(hProvider)
  ELSE IF name \notin DOMAIN KmsKeyVersions THEN "NTE_BAD_KEYSET"
  ELSE IF ~KeySupported(KmsKeyVersions[name]) THEN "NTE_NOT_SUPPORTED"
  ELSE "OK"

\* The OpenKey checks with the flags word put to ValidateFlags unmasked.
OpenKeyChecksUnmasked(hProvider, phKeyNull, pszKeyName, dwLegacyKeySpec, dwFlags) ==
  IF hProvider = NoHandle THEN "NTE_INVALID_HANDLE"
  ELSE IF phKeyNull THEN "NTE_INVALID_PARAMETER"
  ELSE IF pszKeyName = NULL THEN "NTE_INVALID_PARAMETER"
  ELSE IF dwLegacyKeySpec # "AT_KEYEXCHANGE" /\ dwLegacyKeySpec # "AT_SIGNATURE"
    THEN "NTE_INVALID_PARAMETER"
  ELSE ValidateFlags(dwFlags)

\* The OpenKey checks with a legacy key spec of zero let through as "unspecified".
OpenKeyChecksZeroSpec(hProvider, phKeyNull, pszKeyName, dwLegacyKeySpec, dwFlags) ==
  IF hProvider = NoHandle THEN "NTE_INVALID_HANDLE"
  ELSE IF phKeyNull THEN "NTE_INVALID_PARAMETER"
  ELSE IF pszKeyName = NULL THEN "NTE_INVALID_PARAMETER"
  ELSE IF dwLegacyKeySpec \notin {"AT_KEYEXCHANGE", "AT_SIGNATURE", "0"}
    THEN "NTE_INVALID_PARAMETER"
  ELSE IF (dwFlags \ {"NCRYPT_SILENT_FLAG"}) \ {"NCRYPT_MACHINE_KEY_FLAG"} # {}
    THEN "NTE_BAD_FLAGS"
  ELSE "OK"

\* OpenKey, bridge.cc lines 138-162: the checks before Object::New
OpenKeyChecks(hProvider, phKeyNull, pszKeyName, dwLegacyKeySpec, dwFlags) ==
  IF hProvider = NoHandle THEN "NTE_INVALID_HANDLE"
  ELSE IF phKeyNull THEN "NTE_INVALID_PARAMETER"
  ELSE IF pszKeyName = NULL THEN "NTE_INVALID_PARAMETER"
  ELSE IF dwLegacyKeySpec # "AT_KEYEXCHANGE" /\ dwLegacyKeySpec # "AT_SIGNATURE"
    THEN "NTE_INVALID_PARAMETER"
  ELSE IF (dwFlags \ {"NCRYPT_SILENT_FLAG"}) \ {"NCRYPT_MACHINE_KEY_FLAG"} # {}
    THEN "NTE_BAD_FLAGS"
  ELSE "OK"

\* OpenKey, bridge.cc lines 135-168: the status of the call (allocation aside)
OpenKeyStatus(hProvider, phKeyNull, pszKeyName, dwLegacyKeySpec, dwFlags) ==
  IF OpenKeyChecks(hProvider, phKeyNull, pszKeyName, dwLegacyKeySpec, dwFlags) # "OK"
    THEN OpenKeyChecks(hProvider, phKeyNull, pszKeyName, dwLegacyKeySpec, dwFlags)
    ELSE ObjectNewStatus(hProvider, pszKeyName)

\* OpenKey, bridge.cc lines 135-168; the Object is made by `new` at any free address
OpenKey(hProvider, phKeyNull, pszKeyName, dwLegacyKeySpec, dwFlags) ==
  LET st == OpenKeyStatus(hProvider, phKeyNull, pszKeyName, dwLegacyKeySpec, dwFlags)
      args == ArgCase(phKeyNull \/ pszKeyName = NULL
                        \/ dwLegacyKeySpec \notin {"AT_KEYEXCHANGE", "AT_SIGNATURE"},
                      dwFlags \ {"NCRYPT_SILENT_FLAG", "NCRYPT_MACHINE_KEY_FLAG"} # {})
  IN /\ IF st # "OK"
          THEN /\ br_last' = WithCase(BrFail("OpenKey", st), ProviderCase(hProvider),
                                      FALSE, args)
               /\ heap' = heap
          ELSE \E a \in Addr :
                 /\ heap[a].kind = "free"
                 /\ heap' = [heap EXCEPT ![a] = NewObject(hProvider, pszKeyName)]
                 /\ br_last' = WithCase(
                      BrReturn("OpenKey", "OK", Some(a), None, None, None),
                      ProviderCase(hProvider), FALSE, args)
     /\ UNCHANGED <<hm_vars, tk_vars, ld_vars>>

\* FreeKey with the key handle not checked against the provider handle.
FreeKeyResultAnyProvider(hProvider, hKey) ==
  IF ValidateProviderHandle(hProvider) = "OK" /\ hKey \in Addr /\ heap[hKey].kind = "object"
    THEN [status |-> "OK", heap |-> [heap EXCEPT ![hKey] = FreeCell(FALSE)]]
    ELSE [status |-> "NTE_INVALID_HANDLE", heap |-> heap]

\* FreeKey deleting, with the Object, every other Object of the same key and provider.
FreeKeyResultSameName(hProvider, hKey) ==
  IF ValidateKeyHandle(hProvider, hKey) # "OK"
    THEN [status |-> ValidateKeyHandle(hProvider, hKey), heap |-> heap]
    ELSE [status |-> "OK",
          heap |-> [a \in Addr |->
                     IF heap[a].kind = "object" /\ heap[a].prov = hProvider
                          /\ heap[a].name = heap[hKey].name
                       THEN FreeCell(FALSE) ELSE heap[a]]]

\* FreeKey, bridge.cc lines 174-176: the status and the heap it leaves (`delete obj`)
FreeKeyResult(hProvider, hKey) ==
  IF ValidateKeyHandle(hProvider, hKey) # "OK"
    THEN [status |-> ValidateKeyHandle(hProvider, hKey), heap |-> heap]
    ELSE [status |-> "OK", heap |-> [heap EXCEPT ![hKey] = FreeCell(FALSE)]]

\* FreeKey, bridge.cc lines 172-177
FreeKey(hProvider, hKey) ==
  LET r == FreeKeyResult(hProvider, hKey)
  IN /\ br_last' = WithCase(BrFail("FreeKey", r.status), KeyCase(hProvider, hKey),
                            IsOrphan(hKey), {})
     /\ heap' = r.heap
     /\ UNCHANGED <<hm_vars, tk_vars, ld_vars>>

\* Object::GetProperty giving the empty value for a name that is no property.
ObjectGetPropertyEmptyUnknown(obj, name) ==
  IF name = "NCRYPT_KEY_USAGE_PROPERTY" THEN [status |-> "OK", value |-> <<2, 0, 0, 0>>]
  ELSE IF name = "NCRYPT_ALGORITHM_PROPERTY" THEN [status |-> "OK", value |-> <<5, 6>>]
  ELSE [status |-> "OK", value |-> <<>>]

\* Object::GetProperty (kmscng/object.h): key usage (a DWORD), algorithm name (a wide
\* string, here two bytes), or not-supported
ObjectGetProperty(obj, name) ==
  IF name = "NCRYPT_KEY_USAGE_PROPERTY" THEN [status |-> "OK", value |-> <<2, 0, 0, 0>>]
  ELSE IF name = "NCRYPT_ALGORITHM_PROPERTY" THEN [status |-> "OK", value |-> <<5, 6>>]
  ELSE [status |-> "NTE_NOT_SUPPORTED", value |-> <<>>]

\* GetKeyProperty with only the key handle resolved, not the handle it was opened under.
GetKeyPropertyResultAnyProvider(hProvider, hKey, pszProperty, pbOutputNull, cbOutput, pcbResultNull, dwFlags) ==
  LET op == "GetKeyProperty"
  IN IF ~(ValidateProviderHandle(hProvider) = "OK" /\ hKey \in Addr
            /\ heap[hKey].kind = "object")
       THEN BrFail(op, "NTE_INVALID_HANDLE")
     ELSE IF pszProperty = NULL THEN BrFail(op, "NTE_INVALID_PARAMETER")
     ELSE IF pcbResultNull THEN BrFail(op, "NTE_INVALID_PARAMETER")
     ELSE IF ValidateFlags(dwFlags) # "OK" THEN BrFail(op, ValidateFlags(dwFlags))
     ELSE LET r == ObjectGetProperty(heap[hKey], pszProperty)
          IN IF r.status # "OK" THEN BrFail(op, r.status)
             ELSE CopyOut(op, r.value, pbOutputNull, cbOutput)

\* GetKeyProperty, bridge.cc lines 188-218
GetKeyPropertyResult(hProvider, hKey, pszProperty, pbOutputNull, cbOutput, pcbResultNull, dwFlags) ==
  LET op == "GetKeyProperty"
  IN IF ValidateKeyHandle(hProvider, hKey) # "OK"
       THEN BrFail(op, ValidateKeyHandle(hProvider, hKey))
     ELSE IF pszProperty = NULL THEN BrFail(op, "NTE_INVALID_PARAMETER")
     ELSE IF pcbResultNull THEN BrFail(op, "NTE_INVALID_PARAMETER")
     ELSE IF ValidateFlags(dwFlags) # "OK" THEN BrFail(op, ValidateFlags(dwFlags))
     ELSE LET r == ObjectGetProperty(heap[hKey], pszProperty)
          IN IF r.status # "OK" THEN BrFail(op, r.status)
             ELSE CopyOut(op, r.value, pbOutputNull, cbOutput)

\* GetKeyProperty, bridge.cc lines 181-219
GetKeyProperty(hProvider, hKey, pszProperty, pbOutputNull, cbOutput, pcbResultNull, dwFlags) ==
  /\ br_last' = WithCase(
       GetKeyPropertyResult(hProvider, hKey, pszProperty, pbOutputNull, cbOutput,
                            pcbResultNull, dwFlags),
       KeyCase(hProvider, hKey), IsOrphan(hKey),
       ArgCase(pszProperty = NULL \/ pcbResultNull, ValidateFlags(dwFlags) # "OK"))
  /\ heap' = heap
  /\ UNCHANGED <<hm_vars, tk_vars, ld_vars>>

\* ValidateKeyPreconditions (kmscng/operation/sign_utils.h): the key's algorithm and
\* protection level against the supported set
ValidateKeyPreconditions(obj) ==
  IF obj.name = "ckv_ec_p256_hsm" THEN "OK" ELSE "NTE_NOT_SUPPORTED"

\* SignatureLength (kmscng/operation/sign_utils.h): 64 bytes, the raw EC P-256 signature
SignatureLength(obj) == 64

\* SignDigest sending a digest of its own instead of the caller's.
SignDigestOwnDigest(obj, digest, serviceOk) ==
  [status |-> IF serviceOk THEN "OK" ELSE "NTE_INTERNAL_ERROR",
   remote |-> [name |-> obj.name, digest |-> "digest0"],
   signature |-> IF serviceOk THEN Some([signed_by |-> obj.name, digest |-> "digest0"])
                              ELSE None]

\* SignDigest (kmscng/operation/sign_utils.h): one AsymmetricSign request for the
\* Object's key version and the digest; the raw signature goes to the caller's buffer
\* (serviceOk: the remote service answers the request; its failure is returned).
SignDigest(obj, digest, serviceOk) ==
  [status |-> IF serviceOk THEN "OK" ELSE "NTE_INTERNAL_ERROR",
   remote |-> [name |-> obj.name, digest |-> digest],
   signature |-> IF serviceOk THEN Some([signed_by |-> obj.name, digest |-> digest])
                              ELSE None]

\* SignHash sending the request before it looks at the size of the caller's buffer.
SignHashResultEager(hProvider, hKey, pPaddingInfoNull, pbHashValue, pbSignatureNull, cbSignature, pcbResultNull, dwFlags, serviceOk) ==
  LET op == "SignHash"
  IN IF ValidateKeyHandle(hProvider, hKey) # "OK"
       THEN BrFail(op, ValidateKeyHandle(hProvider, hKey))
     ELSE IF ~pPaddingInfoNull THEN BrFail(op, "NTE_INVALID_PARAMETER")
     ELSE IF pbHashValue = None THEN BrFail(op, "NTE_INVALID_PARAMETER")
     ELSE IF pcbResultNull THEN BrFail(op, "NTE_INVALID_PARAMETER")
     ELSE IF ValidateFlags(dwFlags) # "OK" THEN BrFail(op, ValidateFlags(dwFlags))
     ELSE IF ValidateKeyPreconditions(heap[hKey]) # "OK"
       THEN BrFail(op, ValidateKeyPreconditions(heap[hKey]))
     ELSE LET len == SignatureLength(heap[hKey])
              r == SignDigest(heap[hKey], CHOOSE d \in pbHashValue : TRUE, serviceOk)
          IN IF pbSignatureNull
               THEN BrReturn(op, "OK", None, Some(len), None, None)
             ELSE IF cbSignature < len
               THEN BrReturn(op, "NTE_BUFFER_TOO_SMALL", None, Some(len), None, Some(r.remote))
             ELSE BrReturn(op, r.status, None, Some(len), r.signature, Some(r.remote))

\* SignHash, bridge.cc lines 229-268
SignHashResult(hProvider, hKey, pPaddingInfoNull, pbHashValue, pbSignatureNull, cbSignature, pcbResultNull, dwFlags, serviceOk) ==
  LET op == "SignHash"
  IN IF ValidateKeyHandle(hProvider, hKey) # "OK"
       THEN BrFail(op, ValidateKeyHandle(hProvider, hKey))
     ELSE IF ~pPaddingInfoNull THEN BrFail(op, "NTE_INVALID_PARAMETER")
     ELSE IF pbHashValue = None THEN BrFail(op, "NTE_INVALID_PARAMETER")
     ELSE IF pcbResultNull THEN BrFail(op, "NTE_INVALID_PARAMETER")
     ELSE IF ValidateFlags(dwFlags) # "OK" THEN BrFail(op, ValidateFlags(dwFlags))
     ELSE IF ValidateKeyPreconditions(heap[hKey]) # "OK"
       THEN BrFail(op, ValidateKeyPreconditions(heap[hKey]))
     ELSE LET len == SignatureLength(heap[hKey])
              r == SignDigest(heap[hKey], CHOOSE d \in pbHashValue : TRUE, serviceOk)
          IN IF pbSignatureNull
               THEN BrReturn(op, "OK", None, Some(len), None, None)
             ELSE IF cbSignature < len
               THEN BrReturn(op, "NTE_BUFFER_TOO_SMALL", None, Some(len), None, None)
             ELSE BrReturn(op, r.status, None, Some(len), r.signature, Some(r.remote))

\* SignHash, bridge.cc lines 221-269
SignHash(hProvider, hKey, pPaddingInfoNull, pbHashValue, pbSignatureNull, cbSignature, pcbResultNull, dwFlags, serviceOk) ==
  /\ br_last' = WithCase(
       SignHashResult(hProvider, hKey, pPaddingInfoNull, pbHashValue, pbSignatureNull,
                      cbSignature, pcbResultNull, dwFlags, serviceOk),
       KeyCase(hProvider, hKey), IsOrphan(hKey),
       ArgCase(~pPaddingInfoNull \/ pbHashValue = None \/ pcbResultNull,
               ValidateFlags(dwFlags) # "OK"))
  /\ heap' = heap
  /\ UNCHANGED <<hm_vars, tk_vars, ld_vars>>

\* ------------------------------------------------- the calls the host makes
\* Every entry point is called with every handle value; the other arguments are
\* drawn from the argument lists below: a well-formed call of each kind, each single
\* defect, and defects of two check classes at once.

\* OpenProvider(phProvider, pszProviderName, dwFlags)
OpenProviderArg(phProviderNull, pszProviderName, dwFlags) ==
  [phProviderNull |-> phProviderNull, pszProviderName |-> pszProviderName,
   dwFlags |-> dwFlags]
OpenProviderArgs ==
  { OpenProviderArg(FALSE, kProviderName, NoFlags),
    OpenProviderArg(FALSE, kProviderName, Silent),
    OpenProviderArg(TRUE, kProviderName, NoFlags),
    OpenProviderArg(FALSE, NULL, NoFlags),
    OpenProviderArg(FALSE, "MS_KEY_STORAGE_PROVIDER", NoFlags),
    OpenProviderArg(FALSE, kProviderName, PersistOnly),
    OpenProviderArg(FALSE, kProviderName, SilentMachineKey),
    OpenProviderArg(TRUE, kProviderName, PersistOnly) }

\* Get*Property(.., pszProperty, pbOutput, cbOutput, pcbResult, dwFlags) for a
\* property `known` of four or fewer bytes and a name `unknown` that is not a property
GetPropertyArg(pszProperty, pbOutputNull, cbOutput, pcbResultNull, dwFlags) ==
  [pszProperty |-> pszProperty, pbOutputNull |-> pbOutputNull, cbOutput |-> cbOutput,
   pcbResultNull |-> pcbResultNull, dwFlags |-> dwFlags]
GetPropertyArgs(known, unknown) ==
  { GetPropertyArg(known, FALSE, 4, FALSE, NoFlags),
    GetPropertyArg(known, FALSE, 4, FALSE, Silent),
    GetPropertyArg(known, TRUE, 0, FALSE, NoFlags),
    GetPropertyArg(known, TRUE, 4, FALSE, NoFlags),
    GetPropertyArg(known, FALSE, 0, FALSE, NoFlags),
    GetPropertyArg(unknown, FALSE, 4, FALSE, NoFlags),
    GetPropertyArg(NULL, FALSE, 4, FALSE, NoFlags),
    GetPropertyArg(known, FALSE, 4, TRUE, NoFlags),
    GetPropertyArg(known, FALSE, 4, FALSE, PersistOnly),
    GetPropertyArg(known, FALSE, 4, FALSE, SilentMachineKey),
    GetPropertyArg(NULL, FALSE, 4, FALSE, PersistOnly),
    GetPropertyArg(unknown, FALSE, 4, FALSE, PersistOnly) }
GetProviderPropertyArgs ==
  GetPropertyArgs("NCRYPT_IMPL_TYPE_PROPERTY", "NCRYPT_UI_POLICY_PROPERTY")
    \cup GetPropertyArgs("kEndpointAddressProperty", "NCRYPT_UI_POLICY_PROPERTY")
GetKeyPropertyArgs ==
  GetPropertyArgs("NCRYPT_KEY_USAGE_PROPERTY", "NCRYPT_UI_POLICY_PROPERTY")

\* SetProviderProperty(hProvider, pszProperty, pbInput, cbInput, dwFlags); pbInput /
\* cbInput together are the byte string passed, or None for a null pbInput
SetPropertyArg(pszProperty, pbInput, dwFlags) ==
  [pszProperty |-> pszProperty, pbInput |-> pbInput, dwFlags |-> dwFlags]
SetProviderPropertyArgs ==
  { SetPropertyArg("kEndpointAddressProperty", Some(OtherEndpoint), NoFlags),
    SetPropertyArg("kEndpointAddressProperty", Some(DefaultEndpoint), Silent),
    SetPropertyArg("NCRYPT_IMPL_TYPE_PROPERTY", Some(ImplTypeValue), NoFlags),
    SetPropertyArg("NCRYPT_UI_POLICY_PROPERTY", Some(OtherEndpoint), NoFlags),
    SetPropertyArg(NULL, Some(OtherEndpoint), NoFlags),
    SetPropertyArg("kEndpointAddressProperty", None, NoFlags),
    SetPropertyArg("kEndpointAddressProperty", Some(OtherEndpoint), PersistOnly),
    SetPropertyArg("kEndpointAddressProperty", None, PersistOnly),
    SetPropertyArg("NCRYPT_IMPL_TYPE_PROPERTY", Some(ImplTypeValue), PersistOnly) }

\* OpenKey(hProvider, phKey, pszKeyName, dwLegacyKeySpec, dwFlags); the key names are
\* a signing key version the service has, one it does not have, one whose algorithm
\* and one whose protection level is not supported
OpenKeyArg(phKeyNull, pszKeyName, dwLegacyKeySpec, dwFlags) ==
  [phKeyNull |-> phKeyNull, pszKeyName |-> pszKeyName,
   dwLegacyKeySpec |-> dwLegacyKeySpec, dwFlags |-> dwFlags]
OpenKeyArgs ==
  { OpenKeyArg(FALSE, "ckv_ec_p256_hsm", "AT_SIGNATURE", NoFlags),
    OpenKeyArg(FALSE, "ckv_ec_p256_hsm", "AT_KEYEXCHANGE", SilentMachineKey),
    OpenKeyArg(FALSE, "ckv_absent", "AT_SIGNATURE", NoFlags),
    OpenKeyArg(FALSE, "ckv_unsupported", "AT_SIGNATURE", Silent),
    OpenKeyArg(FALSE, "ckv_software", "AT_SIGNATURE", NoFlags),
    OpenKeyArg(TRUE, "ckv_ec_p256_hsm", "AT_SIGNATURE", NoFlags),
    OpenKeyArg(FALSE, NULL, "AT_SIGNATURE", NoFlags),
    OpenKeyArg(FALSE, "ckv_ec_p256_hsm", "0", NoFlags),
    OpenKeyArg(FALSE, "ckv_ec_p256_hsm", "AT_SIGNATURE", PersistOnly),
    OpenKeyArg(FALSE, "ckv_ec_p256_hsm", "AT_SIGNATURE", SilentPersistOnly),
    OpenKeyArg(FALSE, NULL, "AT_SIGNATURE", PersistOnly),
    OpenKeyArg(FALSE, "ckv_ec_p256_hsm", "0", PersistOnly) }

\* SignHash(.., pPaddingInfo, pbHashValue, cbHashValue, pbSignature, cbSignature,
\* pcbResult, dwFlags); pbHashValue / cbHashValue together are the digest, or None.
\* serviceOk is the environment of the call: whether the remote service answers.
SignHashArg(pPaddingInfoNull, pbHashValue, pbSignatureNull, cbSignature, pcbResultNull, dwFlags, serviceOk) ==
  [pPaddingInfoNull |-> pPaddingInfoNull, pbHashValue |-> pbHashValue,
   pbSignatureNull |-> pbSignatureNull, cbSignature |-> cbSignature,
   pcbResultNull |-> pcbResultNull, dwFlags |-> dwFlags, serviceOk |-> serviceOk]
SignHashArgs ==
  { SignHashArg(TRUE, Some("digest1"), FALSE, 64, FALSE, NoFlags, TRUE),
    SignHashArg(TRUE, Some("digest1"), FALSE, 64, FALSE, NoFlags, FALSE),
    SignHashArg(TRUE, Some("digest2"), FALSE, 64, FALSE, Silent, TRUE),
    SignHashArg(TRUE, Some("digest1"), TRUE, 0, FALSE, NoFlags, TRUE),
    SignHashArg(TRUE, Some("digest1"), TRUE, 64, FALSE, NoFlags, TRUE),
    SignHashArg(TRUE, Some("digest1"), FALSE, 63, FALSE, NoFlags, TRUE),
    SignHashArg(FALSE, Some("digest1"), FALSE, 64, FALSE, NoFlags, TRUE),
    SignHashArg(TRUE, None, FALSE, 64, FALSE, NoFlags, TRUE),
    SignHashArg(TRUE, Some("digest1"), FALSE, 64, TRUE, NoFlags, TRUE),
    SignHashArg(TRUE, Some("digest1"), FALSE, 64, FALSE, PersistOnly, TRUE),
    SignHashArg(TRUE, Some("digest1"), FALSE, 64, FALSE, SilentMachineKey, TRUE),
    SignHashArg(TRUE, None, FALSE, 64, FALSE, PersistOnly, TRUE),
    SignHashArg(FALSE, Some("digest1"), TRUE, 0, FALSE, PersistOnly, TRUE) }

BrNext ==
  \/ \E v \in OpenProviderArgs :
       OpenProvider(v.phProviderNull, v.pszProviderName, v.dwFlags)
  \/ \E hProvider \in HandleArgs : FreeProvider(hProvider)
  \/ \E hProvider \in HandleArgs, v \in GetProviderPropertyArgs :
       GetProviderProperty(hProvider, v.pszProperty, v.pbOutputNull, v.cbOutput,
                           v.pcbResultNull, v.dwFlags)
  \/ \E hProvider \in HandleArgs, v \in SetProviderPropertyArgs :
       SetProviderProperty(hProvider, v.pszProperty, v.pbInput, v.dwFlags)
  \/ \E hProvider \in HandleArgs, v \in OpenKeyArgs :
       OpenKey(hProvider, v.phKeyNull, v.pszKeyName, v.dwLegacyKeySpec, v.dwFlags)
  \/ \E hProvider \in HandleArgs, hKey \in HandleArgs : FreeKey(hProvider, hKey)
  \/ \E hProvider \in HandleArgs, hKey \in HandleArgs, v \in GetKeyPropertyArgs :
       GetKeyProperty(hProvider, hKey, v.pszProperty, v.pbOutputNull, v.cbOutput,
                      v.pcbResultNull, v.dwFlags)
  \/ \E hProvider \in HandleArgs, hKey \in HandleArgs, v \in SignHashArgs :
       SignHash(hProvider, hKey, v.pPaddingInfoNull, v.pbHashValue, v.pbSignatureNull,
                v.cbSignature, v.pcbResultNull, v.dwFlags, v.serviceOk)

\* The provider and its properties alone: every provider entry point with every
\* property name, two values of each mutable property, the fixed property set to its
\* own and to another value, and OpenProvider with every kind of provider name.
PropertyNames ==
  {"NCRYPT_IMPL_TYPE_PROPERTY", "kEndpointAddressProperty", "kChannelCredentialsProperty",
   "NCRYPT_UI_POLICY_PROPERTY"}
ProviderNames ==
  {kProviderName, NULL, "", "MS_KEY_STORAGE_PROVIDER", "kProviderName2", "kprovidername"}
SetPropertyCalls ==
  { SetPropertyArg(c[1], c[2], dwFlags) :
      c \in { <<"kEndpointAddressProperty", Some(OtherEndpoint)>>,
              <<"kEndpointAddressProperty", Some(DefaultEndpoint)>>,
              <<"kChannelCredentialsProperty", Some(InsecureCredentials)>>,
              <<"kChannelCredentialsProperty", Some(DefaultCredentials)>>,
              <<"NCRYPT_IMPL_TYPE_PROPERTY", Some(ImplTypeValue)>>,
              <<"NCRYPT_IMPL_TYPE_PROPERTY", Some(OtherEndpoint)>>,
              <<"NCRYPT_UI_POLICY_PROPERTY", Some(OtherEndpoint)>>,
              <<NULL, Some(OtherEndpoint)>>,
              <<"kEndpointAddressProperty", None>> },
      dwFlags \in {NoFlags, PersistOnly} }

\* The host opening and freeing providers and keys.
KeyNext ==
  \/ \E v \in OpenProviderArgs :
       OpenProvider(v.phProviderNull, v.pszProviderName, v.dwFlags)
  \/ \E hProvider \in HandleArgs : FreeProvider(hProvider)
  \/ \E hProvider \in HandleArgs, v \in OpenKeyArgs :
       OpenKey(hProvider, v.phKeyNull, v.pszKeyName, v.dwLegacyKeySpec, v.dwFlags)
  \/ \E hProvider \in HandleArgs, hKey \in HandleArgs : FreeKey(hProvider, hKey)

\* The host opening and freeing providers and keys and signing with the keys.
SignNext ==
  \/ \E v \in OpenProviderArgs :
       OpenProvider(v.phProviderNull, v.pszProviderName, v.dwFlags)
  \/ \E hProvider \in HandleArgs : FreeProvider(hProvider)
  \/ \E hProvider \in HandleArgs, v \in OpenKeyArgs :
       OpenKey(hProvider, v.phKeyNull, v.pszKeyName, v.dwLegacyKeySpec, v.dwFlags)
  \/ \E hProvider \in HandleArgs, hKey \in HandleArgs : FreeKey(hProvider, hKey)
  \/ \E hProvider \in HandleArgs, hKey \in HandleArgs, v \in SignHashArgs :
       SignHash(hProvider, hKey, v.pPaddingInfoNull, v.pbHashValue, v.pbSignatureNull,
                v.cbSignature, v.pcbResultNull, v.dwFlags, v.serviceOk)

PropNext ==
  \/ \E phProviderNull \in BOOLEAN, pszProviderName \in ProviderNames,
         dwFlags \in {NoFlags, Silent, PersistOnly} :
       OpenProvider(phProviderNull, pszProviderName, dwFlags)
  \/ \E hProvider \in HandleArgs : FreeProvider(hProvider)
  \/ \E hProvider \in HandleArgs, pszProperty \in PropertyNames \cup {NULL},
         pbOutputNull \in BOOLEAN, cbOutput \in {0, 2, 4}, dwFlags \in {NoFlags, PersistOnly} :
       GetProviderProperty(hProvider, pszProperty, pbOutputNull, cbOutput, FALSE, dwFlags)
  \/ \E hProvider \in HandleArgs, v \in SetPropertyCalls :
       SetProviderProperty(hProvider, v.pszProperty, v.pbInput, v.dwFlags)

\* =========================================================== object-store loader
\* Token::New (token.cc): LoadState lists the keys and versions of the key ring and
\* builds the snapshot state_; LoadObjects materializes it into a HandleMap<Object>.
\* The remote service is the environment: it supplies each element of a listing
\* when the loader asks for the next one.

ObjHandles == 1..MaxObjHandle

\* CK_OBJECT_CLASS values (PKCS #11): object_class() compares these numbers.
CKO == [certificate |-> 1, public_key |-> 2, private_key |-> 3]

\* An Object of the registry, as far as FindObjects looks at it.
NewObjectOf(ckv_name, class) == [kms_key_name |-> ckv_name, object_class |-> class]

\* The steps of a version's load that can fail (none: all succeed).
VersionFaults ==
  {"none", "GetPublicKey", "ParseX509PublicKeyPem", "MarshalX509PublicKeyDer",
   "GenerateCert", "MarshalX509CertificateDer"}

LdInit ==
  /\ ld_pc = "new"
  /\ generate_certs \in BOOLEAN
  /\ state_ = <<>>
  /\ allocated_handles_ = {}
  /\ ld_key = NoHandle
  /\ token_ = None
  /\ rebuilt = None
  /\ tk_found = None
  /\ ld_seen = {}
  /\ ld_log = [fault |-> "none", rpcs |-> 0, skipped |-> 0]

\* The loader gives up: the locals of LoadState (builder, snapshot) are destroyed.
LdAbort(fault) ==
  /\ ld_pc' = "failed"
  /\ state_' = <<>>
  /\ allocated_handles_' = {}
  /\ ld_key' = NoHandle
  /\ ld_log' = [ld_log EXCEPT !.fault = fault]

\* An error treated as one more thing to skip.
ReturnIfErrorNever(fault) == FALSE

\* ASSIGN_OR_RETURN / RETURN_IF_ERROR: leave the function when the step failed
ReturnIfError(fault) == fault # "none"

\* Token::New lines 220-226 and ObjectStoreBuilder::New lines 67-73: the slot and
\* token info, then the builder (with a certificate authority when asked for).
TokenNewBegin(infoOk, caOk) ==
  /\ ld_pc = "new"
  /\ LET fault == IF ~infoOk THEN "NewTokenInfo"
                  ELSE IF generate_certs /\ ~caOk THEN "CertAuthority::New"
                  ELSE "none"
     IN IF ReturnIfError(fault)
          THEN LdAbort(fault) /\ UNCHANGED ld_seen
          ELSE /\ ld_pc' = "keys"
               /\ ld_log' = [ld_log EXCEPT !.rpcs = @ + 1]   \* ListCryptoKeys
               /\ UNCHANGED <<state_, allocated_handles_, ld_key, ld_seen>>
  /\ UNCHANGED <<generate_certs, token_, rebuilt, tk_found>>
  /\ UNCHANGED <<hm_vars, tk_vars, br_vars>>

\* LoadState lines 164-177: which keys have their versions loaded
KeyRetained(key) ==
  /\ key.protection_level = "HSM"
  /\ key.purpose \in {"ASYMMETRIC_DECRYPT", "ASYMMETRIC_SIGN"}

\* LoadState lines 161-180: one turn of the loop over ListCryptoKeys.
\* elem: the end of the listing, an error or the next CryptoKey.
ListKeysNext(elem) ==
  /\ ld_pc = "keys"
  /\ IF elem.kind = "end"
       THEN /\ ld_pc' = "objects"
            /\ UNCHANGED <<state_, allocated_handles_, ld_key, ld_seen, ld_log>>
     ELSE IF elem.kind = "error"
       THEN IF ReturnIfError("ListCryptoKeys")
              THEN LdAbort("ListCryptoKeys") /\ UNCHANGED ld_seen
              ELSE UNCHANGED <<ld_pc, state_, allocated_handles_, ld_key, ld_seen, ld_log>>
     ELSE /\ \A s \in ld_seen : s.key # elem.key
          /\ ld_seen' = ld_seen \cup {[key |-> elem.key, version |-> 0,
                                       protection_level |-> elem.protection_level,
                                       purpose |-> elem.purpose,
                                       state |-> "", algorithm |-> ""]}
          /\ IF KeyRetained(elem)
               THEN /\ ld_pc' = "versions"
                    /\ ld_key' = elem.key
                    /\ ld_log' = [ld_log EXCEPT !.rpcs = @ + 1]  \* ListCryptoKeyVersions
               ELSE /\ ld_log' = [ld_log EXCEPT !.skipped = 1]
                    /\ UNCHANGED <<ld_pc, ld_key>>
          /\ UNCHANGED <<state_, allocated_handles_>>
  /\ UNCHANGED <<generate_certs, token_, rebuilt, tk_found>>
  /\ UNCHANGED <<hm_vars, tk_vars, br_vars>>

\* GetDetails(algorithm).ok(): the algorithm has an algorithm-details mapping
GetDetailsOk(algorithm) == algorithm # "ALGORITHM_UNSPECIFIED"

\* Versions kept whatever their state.
VersionRetainedAnyState(ckv) == GetDetailsOk(ckv.algorithm)

\* LoadVersions lines 126-135: which versions become an entry of the snapshot
VersionRetained(ckv) == ckv.state = "ENABLED" /\ GetDetailsOk(ckv.algorithm)

\* NewHandle returning the first handle drawn.
NewHandleAny(allocated) == ObjHandles

\* NewHandle lines 102-109: draws until the handle is not in allocated_handles_
NewHandle(allocated) == ObjHandles \ allocated

\* No certificate whatever the builder was made with.
IssuesCertificateNever(cert_authority) == FALSE

\* AddAsymmetricKey line 88: if (cert_authority_)
IssuesCertificate(cert_authority) == cert_authority

\* LoadVersions lines 124-141 with AddAsymmetricKey lines 77-99: one turn of the loop
\* over ListCryptoKeyVersions.  elem: the end, an error or the next CryptoKeyVersion;
\* fault: the step that fails while the version is loaded.
ListVersionsNext(elem, fault) ==
  /\ ld_pc = "versions"
  /\ IF elem.kind = "end"
       THEN /\ fault = "none"
            /\ ld_pc' = "keys"
            /\ ld_key' = NoHandle
            /\ UNCHANGED <<state_, allocated_handles_, ld_seen, ld_log>>
     ELSE IF elem.kind = "error"
       THEN /\ fault = "none"
            /\ IF ReturnIfError("ListCryptoKeyVersions")
                 THEN LdAbort("ListCryptoKeyVersions") /\ UNCHANGED ld_seen
                 ELSE UNCHANGED <<ld_pc, state_, allocated_handles_, ld_key, ld_seen, ld_log>>
     ELSE
       LET key == CHOOSE s \in ld_seen : s.key = ld_key /\ s.version = 0
           certs == IssuesCertificate(generate_certs)
       IN /\ \A s \in ld_seen : ~(s.key = ld_key /\ s.version = elem.version)
          /\ fault \in {"GenerateCert", "MarshalX509CertificateDer"} => certs
          /\ fault # "none" => VersionRetained(elem)
          /\ ld_seen' = ld_seen \cup {[key EXCEPT !.version = elem.version,
                                                  !.state = elem.state,
                                                  !.algorithm = elem.algorithm]}
          /\ IF ~VersionRetained(elem)
               THEN /\ ld_log' = [ld_log EXCEPT !.skipped = 1]
                    /\ UNCHANGED <<ld_pc, state_, allocated_handles_, ld_key>>
             ELSE IF ReturnIfError(fault)
               THEN /\ ld_pc' = "failed"
                    /\ state_' = <<>>
                    /\ allocated_handles_' = {}
                    /\ ld_key' = NoHandle
                    /\ ld_log' = [ld_log EXCEPT !.fault = fault, !.rpcs = @ + 1]
             ELSE
               /\ Len(state_) < MaxEntries
               /\ \E priv \in NewHandle(allocated_handles_) :
                  \E pub \in NewHandle(allocated_handles_ \cup {priv}) :
                  \E cert \in IF certs THEN NewHandle(allocated_handles_ \cup {priv, pub})
                                       ELSE {NoHandle} :
                    /\ state_' = Append(state_,
                                   [crypto_key_version |-> <<ld_key, elem.version>>,
                                    private_key_handle |-> priv,
                                    public_key_handle |-> pub,
                                    has_certificate |-> certs,
                                    certificate_handle |-> cert])
                    /\ allocated_handles_' =
                         allocated_handles_ \cup {priv, pub} \cup (IF certs THEN {cert} ELSE {})
               /\ ld_log' = [ld_log EXCEPT !.fault = IF @ = "none" THEN fault ELSE @,
                                           !.rpcs = @ + 1]   \* GetPublicKey
               /\ UNCHANGED <<ld_pc, ld_key>>
  /\ UNCHANGED <<generate_certs, token_, rebuilt, tk_found>>
  /\ UNCHANGED <<hm_vars, tk_vars, br_vars>>

\* The key pair registered with its two handles exchanged.
KeyPairHandlesSwapped(key) ==
  [public_key |-> key.private_key_handle, private_key |-> key.public_key_handle]

\* LoadObjects lines 193-198: the handles the key pair is registered at
KeyPairHandles(key) ==
  [public_key |-> key.public_key_handle, private_key |-> key.private_key_handle]

\* LoadObjects lines 188-209 for the entries `keys`, into `objects`.  failAt: the
\* entry whose DER fails to parse (0: none does).
RECURSIVE LoadObjectsFrom(_, _, _)
LoadObjectsFrom(keys, objects, failAt) ==
  IF keys = <<>> THEN [status |-> "OK", items |-> objects]
  ELSE IF failAt = 1 THEN [status |-> "INVALID_ARGUMENT", items |-> objects]
  ELSE
    LET key == Head(keys)
        name == key.crypto_key_version
        a1 == AddDirectResult(objects, KeyPairHandles(key).public_key,
                              NewObjectOf(name, CKO.public_key))
        a2 == AddDirectResult(a1.items, KeyPairHandles(key).private_key,
                              NewObjectOf(name, CKO.private_key))
        a3 == IF key.has_certificate
                THEN AddDirectResult(a2.items, key.certificate_handle,
                                     NewObjectOf(name, CKO.certificate))
                ELSE a2
    IN IF a1.status # "OK" THEN a1
       ELSE IF a2.status # "OK" THEN a2
       ELSE IF a3.status # "OK" THEN a3
       ELSE LoadObjectsFrom(Tail(keys), a3.items, IF failAt = 0 THEN 0 ELSE failAt - 1)

\* Token::New lines 228-232: LoadObjects(state), then the Token is constructed
\* around the registry.
TokenNewFinish(failAt) ==
  /\ ld_pc = "objects"
  /\ LET r == LoadObjectsFrom(state_, EmptyMap, failAt)
         fault == IF r.status = "OK" THEN "none" ELSE "LoadObjects"
     IN IF ReturnIfError(fault)
          THEN /\ ld_pc' = "failed"
               /\ ld_log' = [ld_log EXCEPT !.fault = fault]
               /\ UNCHANGED token_
          ELSE /\ ld_pc' = "done"
               /\ token_' = Some(r.items)
               /\ ld_log' = [ld_log EXCEPT !.fault = IF @ = "none" THEN fault ELSE @]
  /\ UNCHANGED <<generate_certs, state_, allocated_handles_, ld_key, rebuilt, tk_found, ld_seen>>
  /\ UNCHANGED <<hm_vars, tk_vars, br_vars>>

\* LoadObjects lines 184-212 applied once more to the snapshot the Token was built
\* from.
LoadObjects(failAt) ==
  /\ ld_pc = "done"
  /\ LET r == LoadObjectsFrom(state_, EmptyMap, failAt)
     IN /\ r.status = "OK"
        /\ rebuilt' = Some(r.items)
  /\ UNCHANGED <<ld_pc, generate_certs, state_, allocated_handles_, ld_key, token_, tk_found,
                 ld_seen, ld_log>>
  /\ UNCHANGED <<hm_vars, tk_vars, br_vars>>

\* std::string operator< on names (sequences of characters)
RECURSIVE LexLess(_, _)
LexLess(a, b) ==
  IF b = <<>> THEN FALSE
  ELSE IF a = <<>> THEN TRUE
  ELSE IF Head(a) # Head(b) THEN Head(a) < Head(b)
  ELSE LexLess(Tail(a), Tail(b))

\* The comparator looking at the key name only.
ObjectLessNameOnly(o1, o2) == LexLess(o1.kms_key_name, o2.kms_key_name)

\* Token::FindObjects lines 282-287: the comparator handed to Find
ObjectLess(o1, o2) ==
  IF o1.kms_key_name = o2.kms_key_name
    THEN o1.object_class < o2.object_class
    ELSE LexLess(o1.kms_key_name, o2.kms_key_name)

\* Token::FindObjects lines 279-288 through HandleMap::Find.  classes: the object
\* classes the predicate accepts.
FindObjects(classes) ==
  /\ ld_pc = "done"
  /\ \E objects_ \in token_ :
     \E order \in IterationOrders({h \in DOMAIN objects_ : objects_[h].object_class \in classes}) :
       tk_found' = Some([classes |-> classes,
                         results |-> StdSort(order,
                                       [h1 \in ObjHandles, h2 \in ObjHandles |->
                                          IF Contains(objects_, h1) /\ Contains(objects_, h2)
                                            THEN ObjectLess(objects_[h1], objects_[h2])
                                            ELSE FALSE])])
  /\ UNCHANGED <<ld_pc, generate_certs, state_, allocated_handles_, ld_key, token_, rebuilt,
                 ld_seen, ld_log>>
  /\ UNCHANGED <<hm_vars, tk_vars, br_vars>>

\* ------------------------------------------------ the calls on a constructed Token
\* Threads calling Login, Logout, is_logged_in (the actions of the login state above)
\* and FindObjects on one Token.  objects_ is a HandleMap: its lock is mutex_, and
\* Find holds it as a reader from entry to return (handle_map.h line 65).

\* A search that takes the login lock before the lock of the registry.
TokenFindObjectsLockNested(t) ==
  /\ ld_pc = "done"
  /\ tk_pc[t] = "idle"
  /\ TkCanLockReader
  /\ CanLockReader
  /\ login_mutex_' = [login_mutex_ EXCEPT !.readers = @ \cup {t}]
  /\ mutex_' = ReaderLocked(t)
  /\ tk_pc' = [tk_pc EXCEPT ![t] = "FindObjects"]
  /\ UNCHANGED <<items_, hm_pc, hm_frame, hm_last, hm_issued, hm_bound, not_found_rv_,
                 use_count, hm_held>>
  /\ UNCHANGED <<is_logged_in_, tk_frame, tk_last, tk_lastOk>>
  /\ UNCHANGED <<br_vars, ld_vars>>

\* Token::FindObjects line 282 into HandleMap::Find line 65: absl::ReaderMutexLock
TokenFindObjectsLock(t) ==
  /\ ld_pc = "done"
  /\ tk_pc[t] = "idle"
  /\ CanLockReader
  /\ mutex_' = ReaderLocked(t)
  /\ tk_pc' = [tk_pc EXCEPT ![t] = "FindObjects"]
  /\ UNCHANGED <<items_, hm_pc, hm_frame, hm_last, hm_issued, hm_bound, not_found_rv_,
                 use_count, hm_held>>
  /\ UNCHANGED <<is_logged_in_, login_mutex_, tk_frame, tk_last, tk_lastOk>>
  /\ UNCHANGED <<br_vars, ld_vars>>

\* A search that takes what it found out of the registry.
TokenFindObjectsBodyEvicting(t, classes) ==
  /\ tk_pc[t] = "FindObjects"
  /\ \E objects_ \in token_ :
       /\ tk_found' = Some([classes |-> classes, results |-> <<>>])
       /\ token_' = Some([h \in {x \in DOMAIN objects_ : objects_[x].object_class \notin classes}
                            |-> objects_[h]])
  /\ mutex_' = ReaderUnlocked(t)
  /\ tk_pc' = [tk_pc EXCEPT ![t] = "idle"]
  /\ tk_last' = TkReturn("FindObjects", "none", OkStatus, FALSE)
  /\ UNCHANGED <<items_, hm_pc, hm_frame, hm_last, hm_issued, hm_bound, not_found_rv_,
                 use_count, hm_held>>
  /\ UNCHANGED <<is_logged_in_, login_mutex_, tk_frame, tk_lastOk>>
  /\ UNCHANGED <<ld_pc, generate_certs, state_, allocated_handles_, ld_key, rebuilt, ld_seen,
                 ld_log>>
  /\ UNCHANGED br_vars

\* Token::FindObjects lines 279-288, HandleMap::Find lines 66-83 and the release of
\* the lock on return.  classes: the object classes the predicate accepts.
TokenFindObjectsBody(t, classes) ==
  /\ tk_pc[t] = "FindObjects"
  /\ \E objects_ \in token_ :
     \E order \in IterationOrders({h \in DOMAIN objects_ : objects_[h].object_class \in classes}) :
       tk_found' = Some([classes |-> classes,
                         results |-> StdSort(order,
                                       [h1 \in ObjHandles, h2 \in ObjHandles |->
                                          IF Contains(objects_, h1) /\ Contains(objects_, h2)
                                            THEN ObjectLess(objects_[h1], objects_[h2])
                                            ELSE FALSE])])
  /\ mutex_' = ReaderUnlocked(t)
  /\ tk_pc' = [tk_pc EXCEPT ![t] = "idle"]
  /\ tk_last' = TkReturn("FindObjects", "none", OkStatus, FALSE)
  /\ UNCHANGED <<items_, hm_pc, hm_frame, hm_last, hm_issued, hm_bound, not_found_rv_,
                 use_count, hm_held>>
  /\ UNCHANGED <<is_logged_in_, login_mutex_, tk_frame, tk_lastOk>>
  /\ UNCHANGED <<ld_pc, generate_certs, state_, allocated_handles_, ld_key, token_, rebuilt,
                 ld_seen, ld_log>>
  /\ UNCHANGED br_vars

TokenCallsNext ==
  \/ TkNext
  \/ \E t \in Threads : TokenFindObjectsLock(t)
  \/ \E t \in Threads,
         classes \in (SUBSET {CKO.certificate, CKO.public_key, CKO.private_key}) \ {{}} :
       TokenFindObjectsBody(t, classes)

\* The snapshots LoadState builds from a key ring of one signing key with two
\* enabled versions, certificates off, for two of the draws of NewHandle.
BuiltSnapshots ==
  { << [crypto_key_version |-> <<1, 1>>, private_key_handle |-> h[1],
        public_key_handle |-> h[2], has_certificate |-> FALSE, certificate_handle |-> 0],
       [crypto_key_version |-> <<1, 2>>, private_key_handle |-> h[3],
        public_key_handle |-> h[4], has_certificate |-> FALSE, certificate_handle |-> 0] >> :
      h \in {<<1, 2, 3, 4>>, <<4, 1, 3, 2>>} }

\* The loader after Token::New has returned a Token built from such a key ring.
LdBuilt ==
  /\ ld_pc = "done"
  /\ generate_certs = FALSE
  /\ state_ \in BuiltSnapshots
  /\ allocated_handles_ = ObjHandles
  /\ ld_key = NoHandle
  /\ token_ = Some(LoadObjectsFrom(state_, EmptyMap, 0).items)
  /\ rebuilt = None
  /\ tk_found = None
  /\ ld_seen =
       { [key |-> 1, version |-> 0, protection_level |-> "HSM", purpose |-> "ASYMMETRIC_SIGN",
          state |-> "", algorithm |-> ""] }
       \cup { [key |-> 1, version |-> v, protection_level |-> "HSM",
               purpose |-> "ASYMMETRIC_SIGN", state |-> "ENABLED",
               algorithm |-> "EC_SIGN_P256_SHA256"] : v \in {1, 2} }
  /\ ld_log = [fault |-> "none", rpcs |-> 4, skipped |-> 0]

\* The snapshots LoadObjects can be handed: one or two entries, entry i for version i
\* of key 1, with any handle values, equal ones included (a snapshot read back from
\* its serialized form is not the work of NewHandle).
SnapshotEntries(i) ==
  { [crypto_key_version |-> <<1, i>>, private_key_handle |-> priv, public_key_handle |-> pub,
     has_certificate |-> cert # 0, certificate_handle |-> cert] :
      priv \in ObjHandles, pub \in ObjHandles, cert \in {0} \cup ObjHandles }

AnySnapshots ==
  { <<e1>> : e1 \in SnapshotEntries(1) }
    \cup { <<e1, e2>> : e1 \in SnapshotEntries(1), e2 \in SnapshotEntries(2) }

\* Token::New line 228 about to call LoadObjects(state) with such a snapshot.
LdSnapshotGiven ==
  /\ ld_pc = "objects"
  /\ generate_certs = FALSE
  /\ state_ \in AnySnapshots
  /\ allocated_handles_ = {}
  /\ ld_key = NoHandle
  /\ token_ = None
  /\ rebuilt = None
  /\ tk_found = None
  /\ ld_seen = {}
  /\ ld_log = [fault |-> "none", rpcs |-> 0, skipped |-> 0]

\* LoadObjects applied to the snapshot.
MaterializeNext == \E failAt \in 0..MaxEntries : TokenNewFinish(failAt)

\* What an iterator of a listing yields: the end, an error or an element.
ListingStops == {[kind |-> "end"], [kind |-> "error"]}

CryptoKeys ==
  [kind : {"element"}, key : 1..MaxKeys, protection_level : {"HSM", "SOFTWARE"},
   purpose : {"ASYMMETRIC_SIGN", "ASYMMETRIC_DECRYPT", "ENCRYPT_DECRYPT"}]

CryptoKeyVersions ==
  [kind : {"element"}, version : 1..MaxVersions, state : {"ENABLED", "DISABLED"},
   algorithm : {"EC_SIGN_P256_SHA256", "ALGORITHM_UNSPECIFIED"}]

\* RandomHandle() of a generator that produces one value only.
RandomObjHandleStuck == {1}

\* RandomHandle() as NewHandle calls it: any value of the object-handle space.
RandomObjHandle == ObjHandles

\* AddAsymmetricKey calling NewHandle() of its builder (token.cc lines 84, 85, 94).
NewHandleCall ==
  /\ ld_pc = "new"
  /\ ld_pc' = "NewHandle"
  /\ UNCHANGED <<generate_certs, state_, allocated_handles_, ld_key, token_, rebuilt, tk_found,
                 ld_seen, ld_log>>
  /\ UNCHANGED <<hm_vars, tk_vars, br_vars>>

\* NewHandle, lines 104-108: one iteration of do { handle = RandomHandle(); } while
\* (allocated_handles_.contains(handle)), with the insert and the return that follow
\* the iteration that leaves the loop.  An iteration that stays in the loop changes
\* nothing: the local `handle` is overwritten by the next one.
NewHandleDraw ==
  /\ ld_pc = "NewHandle"
  /\ \E handle \in RandomObjHandle :
       IF handle \in allocated_handles_
         THEN UNCHANGED <<ld_pc, allocated_handles_>>
         ELSE /\ allocated_handles_' = allocated_handles_ \cup {handle}
              /\ ld_pc' = "new"
  /\ UNCHANGED <<generate_certs, state_, ld_key, token_, rebuilt, tk_found, ld_seen, ld_log>>
  /\ UNCHANGED <<hm_vars, tk_vars, br_vars>>

\* The iteration of Add's loop that draws an unoccupied handle.
AddDrawFree(t) == AddDraw(t) /\ hm_pc'[t] = "Add_emplace"

\* The iteration of NewHandle's loop that draws an unallocated handle.
NewHandleDrawFree == NewHandleDraw /\ ld_pc' = "new"

\* Threads adding to and removing from one HandleMap, and a builder drawing handles.
DrawNext ==
  \/ \E t \in Threads, item \in Items : AddLock(t, item)
  \/ \E t \in Threads : AddDraw(t)
  \/ \E t \in Threads : AddEmplace(t)
  \/ \E t \in Threads, h \in Handles : RemoveLock(t, h)
  \/ \E t \in Threads : RemoveBody(t)
  \/ NewHandleCall
  \/ NewHandleDraw

LdNext ==
  \/ \E infoOk \in BOOLEAN, caOk \in BOOLEAN : TokenNewBegin(infoOk, caOk)
  \/ \E elem \in ListingStops \cup CryptoKeys : ListKeysNext(elem)
  \/ \E elem \in ListingStops \cup CryptoKeyVersions, fault \in VersionFaults :
       ListVersionsNext(elem, fault)
  \/ \E failAt \in 0..MaxEntries : TokenNewFinish(failAt)
  \/ \E failAt \in 0..MaxEntries : LoadObjects(failAt)

\* Searches of a Token constructed from a key ring of loadable signing keys by a
\* remote service that does not fail.
LdFindNext ==
  \/ TokenNewBegin(TRUE, TRUE)
  \/ \E elem \in {[kind |-> "end"]} \cup
                  {k \in CryptoKeys : KeyRetained(k) /\ k.purpose = "ASYMMETRIC_SIGN"} :
       ListKeysNext(elem)
  \/ \E elem \in {[kind |-> "end"]} \cup {v \in CryptoKeyVersions : VersionRetained(v)} :
       ListVersionsNext(elem, "none")
  \/ TokenNewFinish(0)
  \/ \E classes \in (SUBSET {CKO.certificate, CKO.public_key, CKO.private_key}) \ {{}} :
       FindObjects(classes)

\* ============================================================ specifications

\* Every component as constructed (the registry of objects: CKR_OBJECT_HANDLE_INVALID).
Init == HmInitWith("CKR_OBJECT_HANDLE_INVALID") /\ TkInit /\ BrInit /\ LdInit /\ ~generate_certs

\* One registry, built with any of the not-found codes.
InitHandleMap == HmInit /\ TkInit /\ BrInit /\ LdInit /\ ~generate_certs

\* Threads calling the methods of one HandleMap.
SpecHandleMap == InitHandleMap /\ [][HmNext]_vars

SpecHolders == Init /\ [][HoldNext]_vars

SpecFind == Init /\ [][FindNext]_vars

\* Threads calling Login, Logout and is_logged_in of one Token.
SpecToken == Init /\ [][TkNext]_vars

SpecTokenSteps == Init /\ [][TokenStepsNext]_vars

\* A host process calling the bridge entry points.
SpecBridge == Init /\ [][BrNext]_vars

SpecProps == Init /\ [][PropNext]_vars

\* The key entry points alone, and with SignHash.
SpecKeys == Init /\ [][KeyNext]_vars

SpecSign == Init /\ [][SignNext]_vars

\* Threads calling every method of one HandleMap, Find step by step.
SpecFindSteps == Init /\ [][FindStepsNext]_vars

\* The drawing loops under a fair random draw: a thread inside a loop keeps running,
\* and a generator that is asked again and again produces every value, so the
\* iteration that draws a free value, possible at every turn, is taken in the end.
SpecDraws ==
  /\ Init
  /\ [][DrawNext]_vars
  /\ \A t \in Threads : WF_vars(AddDrawFree(t)) /\ WF_vars(AddEmplace(t))
  /\ WF_vars(NewHandleDrawFree)

\* Threads calling the methods of one Token that Token::New has returned.
InitTokenBuilt == HmInitWith("CKR_OBJECT_HANDLE_INVALID") /\ TkInit /\ BrInit /\ LdBuilt

SpecTokenCalls == InitTokenBuilt /\ [][TokenCallsNext]_vars

\* The same threads, each of which keeps running while it is inside a call: a thread
\* that holds a lock is not waiting for anything, so its next step is taken.
SpecTokenLive ==
  /\ InitTokenBuilt
  /\ [][TokenCallsNext]_vars
  /\ \A t \in Threads :
       /\ WF_vars(LoginBody(t))
       /\ WF_vars(LogoutBody(t))
       /\ WF_vars(IsLoggedInBody(t))
       /\ WF_vars(\E classes \in SUBSET {CKO.certificate, CKO.public_key, CKO.private_key} :
                    TokenFindObjectsBody(t, classes))

\* LoadObjects as a function of the snapshot it is given.
InitMaterialize == HmInitWith("CKR_OBJECT_HANDLE_INVALID") /\ TkInit /\ BrInit /\ LdSnapshotGiven

SpecMaterialize == InitMaterialize /\ [][MaterializeNext]_vars

\* Token::New with either setting of generate_certs.
InitLoader == HmInitWith("CKR_OBJECT_HANDLE_INVALID") /\ TkInit /\ BrInit /\ LdInit

SpecLoader == InitLoader /\ [][LdNext]_vars

SpecFindObjects == InitLoader /\ [][LdFindNext]_vars


\* =============================================================== properties

\* ---------------------------------------------------------------- HandleMap

\* C1: handle uniqueness. Every handle has at most one insertion reported OK and not
\* yet removed, a handle is occupied exactly when it has one, the item found under an
\* occupied handle is the item of that insertion, and the handle the last Add
\* returned holds the item that was added: Add never returns an occupied handle, and
\* a handle is handed out again only after its removal.
C1_HandleUniqueness ==
  /\ \A h \in Handles : hm_issued[h] = (IF Contains(items_, h) THEN 1 ELSE 0)
  /\ \A h \in Handles : Contains(items_, h) => items_[h] = hm_bound[h]
  /\ hm_last.op = "Add" =>
       Contains(items_, hm_last.handle) /\ items_[hm_last.handle] = hm_last.item

\* An Add has returned a handle while another handle was live.
C1_Witness ==
  /\ hm_last.op = "Add"
  /\ \E h \in Handles : h # hm_last.handle /\ Contains(items_, h)

\* C9: handle lifecycle. From an insertion reported OK until a Remove reported OK the
\* handle resolves to the inserted item and Get returns it; after the Remove the
\* handle is absent, Get and Remove report not-found; an insertion is never removed
\* twice (of several Remove calls on one live handle only one reports OK).
C9_HandleLifecycle ==
  /\ \A h \in Handles :
       IF hm_bound[h] # NoItem
         THEN Contains(items_, h) /\ items_[h] = hm_bound[h]
         ELSE ~Contains(items_, h)
  /\ \A h \in Handles : hm_issued[h] >= 0
  /\ hm_last.op = "Get" =>
       IF hm_bound[hm_last.handle] # NoItem
         THEN hm_last.status = "OK" /\ hm_last.item = hm_bound[hm_last.handle]
         ELSE hm_last.status = "NOT_FOUND"
  /\ hm_last.op = "Remove" => hm_bound[hm_last.handle] = NoItem
  /\ \A t \in Threads :
       (hm_pc[t] = "Remove" /\ hm_last.op = "Remove" /\ hm_last.handle = hm_frame[t].handle)
         => RemoveResult(items_, hm_frame[t].handle).status = "NOT_FOUND"

\* A Remove of a handle has reported OK and another thread is inside Remove of the
\* same handle.
C9_Witness ==
  /\ hm_last.op = "Remove"
  /\ hm_last.status = "OK"
  /\ \E t \in Threads : hm_pc[t] = "Remove" /\ hm_frame[t].handle = hm_last.handle

\* C10: AddDirect(h, item) on an unoccupied h reports OK and binds exactly h to item;
\* on an occupied h it reports the internal error and leaves every binding as it was.
C10_AddDirect ==
  [][\A t \in Threads :
       (hm_pc[t] = "AddDirect" /\ hm_pc'[t] = "idle") =>
         LET h == hm_frame[t].handle
             item == hm_frame[t].item
         IN IF h \in DOMAIN items_
              THEN /\ hm_last'.status = "INTERNAL"
                   /\ items_' = items_
              ELSE /\ hm_last'.status = "OK"
                   /\ DOMAIN items_' = DOMAIN items_ \cup {h}
                   /\ items_'[h] = item
                   /\ \A x \in DOMAIN items_ : items_'[x] = items_[x]]_vars

\* An AddDirect of another item on an occupied handle has reported the internal error.
C10_Witness ==
  /\ hm_last.op = "AddDirect"
  /\ hm_last.status = "INTERNAL"
  /\ Contains(items_, hm_last.handle)
  /\ items_[hm_last.handle] # hm_last.item

\* -------------------------------------------------------------------- Token

\* C7: the login state is a two-state machine starting logged-out. The locked part of
\* Login succeeds and sets the flag iff the flag is clear, else fails with
\* already-logged-in and leaves it set; the locked part of Logout succeeds and clears
\* the flag iff it is set, else fails with not-logged-in; no other step changes the
\* flag; the flag is set iff the last of Login / Logout that succeeded was a Login, and
\* that is what is_logged_in returns.
C7_LoginStateMachine ==
  /\ [](/\ is_logged_in_ <=> (tk_lastOk = "Login")
        /\ tk_last.op = "is_logged_in" => (tk_last.value <=> (tk_lastOk = "Login")))
  /\ [][\A t \in Threads :
          /\ (tk_pc[t] = "Login" /\ tk_pc'[t] = "idle") =>
               IF is_logged_in_
                 THEN /\ tk_last'.status =
                           Status("kFailedPrecondition", "CKR_USER_ALREADY_LOGGED_IN")
                      /\ is_logged_in_'
                 ELSE /\ tk_last'.status = OkStatus
                      /\ is_logged_in_'
          /\ (tk_pc[t] = "Logout" /\ tk_pc'[t] = "idle") =>
               IF is_logged_in_
                 THEN /\ tk_last'.status = OkStatus
                      /\ ~is_logged_in_'
                 ELSE /\ tk_last'.status =
                           Status("kFailedPrecondition", "CKR_USER_NOT_LOGGED_IN")
                      /\ ~is_logged_in_'
          /\ (is_logged_in_' # is_logged_in_) =>
               \E u \in Threads : tk_pc[u] \in {"Login", "Logout"} /\ tk_pc'[u] = "idle"]_vars

\* A Login has failed with already-logged-in and the token is still logged in.
C7_Witness ==
  /\ tk_last.op = "Login"
  /\ tk_last.status.ckr = "CKR_USER_ALREADY_LOGGED_IN"
  /\ is_logged_in_

\* C8 as stated: a Login with any role other than CKU_USER fails with a
\* permission-denied or not-supported kind of error.
C8_EveryOtherRolePermissionDenied ==
  (tk_last.op = "Login" /\ tk_last.user # "CKU_USER") =>
    tk_last.status.code \in {"kPermissionDenied", "kUnimplemented"}

\* C8, amended: a Login with a role other than CKU_USER never reaches the
\* already-logged-in check and never changes the flag, in either login state; CKU_SO
\* and CKU_CONTEXT_SPECIFIC fail with permission-denied (CKR_PIN_LOCKED and
\* CKR_OPERATION_NOT_INITIALIZED), every other value fails with invalid-argument
\* (CKR_USER_TYPE_INVALID).
C8_RoleCheckFirst ==
  /\ [](\A t \in Threads : tk_pc[t] = "Login" => tk_frame[t] = "CKU_USER")
  /\ [][(tk_last' # tk_last /\ tk_last'.op = "Login" /\ tk_last'.user # "CKU_USER") =>
          /\ is_logged_in_' = is_logged_in_
          /\ tk_last'.status =
               (IF tk_last'.user = "CKU_SO"
                  THEN Status("kPermissionDenied", "CKR_PIN_LOCKED")
                ELSE IF tk_last'.user = "CKU_CONTEXT_SPECIFIC"
                  THEN Status("kPermissionDenied", "CKR_OPERATION_NOT_INITIALIZED")
                ELSE Status("kInvalidArgument", "CKR_USER_TYPE_INVALID"))]_vars

\* A Login with the context-specific role has been rejected while logged in.
C8_Witness ==
  /\ tk_last.op = "Login"
  /\ tk_last.user = "CKU_CONTEXT_SPECIFIC"
  /\ is_logged_in_

\* ---------------------------------------------------------- Provider bridge

KeyOps == {"FreeKey", "GetKeyProperty", "SignHash"}

\* C2 as stated: once the Provider a key handle was opened under has been freed, every
\* FreeKey, GetKeyProperty and SignHash that presents the key handle returns
\* invalid-handle.
C2_FreeProviderInvalidatesKeys ==
  (br_last.op \in KeyOps /\ br_last.orphan) => br_last.status = "NTE_INVALID_HANDLE"

\* A key entry point has been called with a key handle whose Provider had been freed.
C2_Witness ==
  br_last.op \in KeyOps /\ br_last.orphan

\* C3: FreeKey pairing and exactly-once. FreeKey with the key handle of a live Object
\* and the provider handle it was opened under reports OK and deletes exactly one
\* Object; with a live provider handle the Object was not opened under it reports
\* invalid-handle and leaves the heap (so the Object, still open under its own
\* provider handle) as it was; with a key handle that is no live Object (one FreeKey
\* has deleted, say) it reports invalid-handle and changes nothing.
C3_FreeKeyPairing ==
  [][br_last'.op = "FreeKey" =>
       IF br_last'.handles = "owner"
         THEN /\ br_last'.status = "OK"
              /\ \E k \in Addr :
                   /\ heap[k].kind = "object"
                   /\ heap'[k].kind = "free"
                   /\ \A a \in Addr \ {k} : heap'[a] = heap[a]
         ELSE /\ br_last'.status = "NTE_INVALID_HANDLE"
              /\ heap' = heap]_vars

\* A FreeKey under a live provider handle that did not open the key has returned.
C3_Witness ==
  br_last.op = "FreeKey" /\ br_last.handles = "foreign"

\* C4 as stated: after FreeProvider(p) has succeeded, every call passing p as the
\* provider handle returns invalid-handle.
C4_FreedProviderRejected ==
  br_last.handles = "freed" => br_last.status = "NTE_INVALID_HANDLE"

\* A call has passed the handle of a freed Provider.
C4_Witness ==
  br_last.handles = "freed" /\ br_last.op # "OpenKey"

\* C5: a key handle is scoped to the provider handle it was opened under. FreeKey,
\* GetKeyProperty and SignHash with a live Object and a live provider handle other
\* than the one it was opened under report invalid-handle, write no result size and no
\* output, make no remote sign request and leave the heap as it was.
C5_KeyScopedToProvider ==
  [][(br_last'.op \in KeyOps /\ br_last'.handles = "foreign") =>
       /\ br_last'.status = "NTE_INVALID_HANDLE"
       /\ br_last'.cbResult = None
       /\ br_last'.output = None
       /\ br_last'.remote = None
       /\ heap' = heap]_vars

\* A SignHash under a live provider handle that did not open the key has returned.
C5_Witness ==
  br_last.op = "SignHash" /\ br_last.handles = "foreign"

\* C6 as stated: every entry point reports the earliest violated check in the order
\* (a) zero provider handle, (b) handles that do not resolve, (c) null or unsupported
\* pointer / selector arguments, (d) flags outside the allow-list.
C6_ValidationOrder ==
  /\ br_last.handles \in {"zero", "dead", "freed", "nokey", "foreign"} =>
       br_last.status = "NTE_INVALID_HANDLE"
  /\ (br_last.handles \in {"none", "live", "owner"} /\ "c" \in br_last.args) =>
       br_last.status = "NTE_INVALID_PARAMETER"
  /\ (br_last.handles \in {"none", "live", "owner"} /\ br_last.args = {"d"}) =>
       br_last.status = "NTE_BAD_FLAGS"

\* A call whose handles resolve has broken a pointer check and the flags check at once.
C6_Witness ==
  /\ br_last.handles \in {"live", "owner"}
  /\ br_last.args = {"c", "d"}


----------------------------------------------------------------------------
(* C11: Get and Remove of a handle that is not in the registry fail with the
   not-found code the registry was constructed with (so two registries built
   with different codes report different codes), and leave the map as it was. *)
C11_ConfiguredNotFound ==
  /\ [](hm_last.status = "NOT_FOUND" =>
          /\ hm_last.op \in {"Get", "Remove"}
          /\ hm_last.rv = {not_found_rv_})
  /\ [][\A t \in Threads :
          (hm_pc[t] \in {"Get", "Remove"} /\ hm_pc'[t] = "idle"
             /\ ~Contains(items_, hm_frame[t].handle))
          => /\ hm_last'.status = "NOT_FOUND"
             /\ hm_last'.handle = hm_frame[t].handle
             /\ hm_last'.rv = {not_found_rv_}
             /\ items_' = items_]_vars
  /\ [][not_found_rv_' = not_found_rv_]_vars

\* A Remove of an absent handle has just failed in a registry that was built with
\* the other code, while another handle is still bound.
C11_Witness ==
  /\ not_found_rv_ = "CKR_SESSION_HANDLE_INVALID"
  /\ hm_last.op = "Remove"
  /\ hm_last.status = "NOT_FOUND"
  /\ hm_last.rv = {"CKR_SESSION_HANDLE_INVALID"}
  /\ \E h \in Handles : Contains(items_, h)


----------------------------------------------------------------------------
(* C12: eviction does not affect holders.  A caller that holds the shared
   reference Get returned keeps a live item whatever Remove does afterwards or
   concurrently: Remove takes nothing from a holder, an item held by a thread
   always has an owner count of at least one, and the count of an item reaches
   zero (the item is destroyed) only in a step after which neither the map nor
   any holder refers to it. *)
C12_EvictionKeepsHolders ==
  /\ [](\A t \in Threads : \A i \in hm_held[t] : use_count[i] >= 1)
  /\ [](\A i \in Items :
          use_count[i] = Cardinality({h \in Handles : Contains(items_, h) /\ items_[h] = i})
                         + Cardinality({t \in Threads : i \in hm_held[t]}))
  /\ [][\A t \in Threads :
          (hm_pc[t] = "Remove" /\ hm_pc'[t] = "idle") => hm_held' = hm_held]_vars
  /\ [][\A i \in Items :
          (use_count[i] >= 1 /\ use_count'[i] = 0)
          => /\ \A t \in Threads : i \notin hm_held'[t]
             /\ \A h \in Handles : Contains(items_', h) => items_'[h] # i]_vars

\* Remove has just evicted an item that another thread still holds: the item is
\* in no handle of the map and its only owner is the holder.
C12_Witness ==
  /\ hm_last.op = "Remove"
  /\ hm_last.status = "OK"
  /\ \E t \in Threads : \E i \in hm_held[t] :
       /\ use_count[i] = 1
       /\ \A h \in Handles : Contains(items_, h) => items_[h] # i


----------------------------------------------------------------------------
(* C13: Find(predicate, comparator) returns each handle whose item satisfies the
   predicate exactly once and no other handle; when a comparator is given, for
   consecutive returned handles h1, h2 the comparator does not put the item of h2
   strictly before the item of h1; Find never changes the map. *)
C13_FindFilterAndOrder ==
  [][(hm_last' # hm_last /\ hm_last'.op = "Find")
     => LET r == hm_last'.results
        IN /\ \A i, j \in 1..Len(r) : i # j => r[i] # r[j]
           /\ {r[i] : i \in 1..Len(r)} =
                {h \in Handles : Contains(items_, h) /\ items_[h] \in hm_last'.predicate}
           /\ hm_last'.sort_compare # "nullptr"
                => \A i \in 1..(Len(r) - 1) :
                     ~sort_compare(hm_last'.sort_compare, items_[r[i + 1]], items_[r[i]])
           /\ items_' = items_
           /\ use_count' = use_count]_vars

\* A sorted Find has returned two handles, the larger handle first, while the map
\* also holds what the search asked for.
C13_Witness ==
  /\ hm_last.op = "Find"
  /\ hm_last.sort_compare = "greater"
  /\ Len(hm_last.results) = 2
  /\ hm_last.results[1] < hm_last.results[2]
  /\ \A h \in Handles : Contains(items_, h)
  /\ items_[hm_last.results[1]] > items_[hm_last.results[2]]


\* ----------------------------------------------------------- object-store loader

(* C14: Token::FindObjects returns the handles of the matching objects, each once,
   ordered first by the remote key name (lexicographic) and, among objects of one key
   name, by object class in the provider's canonical class ordering: increasing
   CK_OBJECT_CLASS, that is certificate, public key, private key. *)
C14_FindObjectsOrder ==
  \A f \in tk_found : \A objects_ \in token_ :
    LET r == f.results
        name(i) == objects_[r[i]].kms_key_name
        class(i) == objects_[r[i]].object_class
    IN /\ \A i, j \in 1..Len(r) : i # j => r[i] # r[j]
       /\ {r[i] : i \in 1..Len(r)} =
            {h \in DOMAIN objects_ : objects_[h].object_class \in f.classes}
       /\ \A i \in 1..(Len(r) - 1) :
            \/ name(i)[1] < name(i + 1)[1]
            \/ name(i)[1] = name(i + 1)[1] /\ name(i)[2] < name(i + 1)[2]
            \/ name(i) = name(i + 1) /\ class(i) < class(i + 1)

\* A search for every class of a Token with certificates has returned certificate,
\* public key, private key of one key version, against the order of their handles.
C14_Witness ==
  \E f \in tk_found : \E objects_ \in token_ :
    /\ Len(f.results) = 3
    /\ objects_[f.results[1]].object_class = CKO.certificate
    /\ objects_[f.results[2]].object_class = CKO.public_key
    /\ objects_[f.results[3]].object_class = CKO.private_key
    /\ f.results[1] > f.results[2]
    /\ f.results[2] > f.results[3]


\* The listed versions that the loader is to keep, by name.
RetainedNames ==
  {<<s.key, s.version>> : s \in {x \in ld_seen :
       /\ x.version # 0
       /\ x.protection_level = "HSM"
       /\ x.purpose \in {"ASYMMETRIC_SIGN", "ASYMMETRIC_DECRYPT"}
       /\ x.state = "ENABLED"
       /\ x.algorithm # "ALGORITHM_UNSPECIFIED"}}

(* C15: load-time filtering.  While no genuine error has occurred, the snapshot holds
   exactly one entry for a listed key version if and only if its key is
   hardware-protected, the key purpose is asymmetric sign or asymmetric decrypt, the
   version is enabled and its algorithm has an algorithm-details mapping, and holds
   no other entry; a step that skips a key or a version leaves the loader listing,
   with the snapshot as it was. *)
C15_LoadFiltering ==
  /\ [](ld_pc \in {"keys", "versions", "objects", "done"}
        => /\ \A n \in RetainedNames :
                Cardinality({i \in 1..Len(state_) : state_[i].crypto_key_version = n}) = 1
           /\ \A i \in 1..Len(state_) : state_[i].crypto_key_version \in RetainedNames)
  /\ [][(ld_seen' # ld_seen /\ RetainedNames' = RetainedNames)
        => (state_' = state_ /\ ld_pc' \in {"keys", "versions"}
              /\ ld_log'.fault = ld_log.fault)]_vars

\* A Token was built from a key ring in which a key and a version were skipped and
\* a version was kept.
C15_Witness ==
  /\ ld_pc = "done"
  /\ Len(state_) = 1
  /\ \E s \in ld_seen : s.version = 0 /\ s.protection_level = "SOFTWARE"
  /\ \E s \in ld_seen : s.version # 0 /\ s.state = "DISABLED"
  /\ token_ # None

(* C16: genuine errors abort construction.  When a listing RPC, the public-key fetch,
   the public-key parse or marshal, the construction of the certificate authority,
   the generation of a certificate or the materialization fails, Token::New stops at
   that step and returns the error: there is a Token only when no step has failed,
   and then its object store holds the objects of every entry of the snapshot. *)
C16_ErrorsAbort ==
  /\ [](ld_log.fault # "none" <=> ld_pc = "failed")
  /\ [](ld_pc = "failed" => token_ = None /\ rebuilt = None /\ tk_found = None)
  /\ [](token_ # None
        => \A objects_ \in token_ :
             /\ ld_pc = "done"
             /\ \A i \in 1..Len(state_) :
                  /\ Contains(objects_, state_[i].public_key_handle)
                  /\ Contains(objects_, state_[i].private_key_handle)
                  /\ state_[i].has_certificate => Contains(objects_, state_[i].certificate_handle)
             /\ {state_[i].crypto_key_version : i \in 1..Len(state_)} = RetainedNames)
  /\ [][ld_pc = "failed" => (ld_pc' = "failed")]_vars

\* The generation of the certificate of a second version has failed after a first
\* version had been loaded: no Token.
C16_Witness ==
  /\ ld_pc = "failed"
  /\ ld_log.fault = "GenerateCert"
  /\ Cardinality(RetainedNames) = 2
  /\ token_ = None

\* The handles of one entry of the snapshot.
EntryHandles(key) ==
  {key.private_key_handle, key.public_key_handle}
    \cup (IF key.has_certificate THEN {key.certificate_handle} ELSE {})

(* C17: all handles of one snapshot are pairwise distinct: within an entry the
   private-key, public-key and certificate handles differ, and no handle of an entry
   is a handle of another entry. *)
C17_SnapshotHandlesDistinct ==
  /\ \A i \in 1..Len(state_) :
       Cardinality(EntryHandles(state_[i])) = IF state_[i].has_certificate THEN 3 ELSE 2
  /\ \A i, j \in 1..Len(state_) :
       i # j => EntryHandles(state_[i]) \cap EntryHandles(state_[j]) = {}

\* The snapshot has two entries whose handles use up the whole handle space, so
\* every draw after the first could have collided.
C17_Witness ==
  /\ Len(state_) = 2
  /\ allocated_handles_ = ObjHandles
  /\ UNION {EntryHandles(state_[i]) : i \in 1..Len(state_)} = ObjHandles

(* C18: snapshot round-trip.  Materializing the same snapshot twice yields registries
   with identical handle-to-(key name, object class) bindings, every object is
   registered at exactly the handle the snapshot stores for it and at no other, and
   materialization makes no call to the remote service. *)
C18_SnapshotRoundTrip ==
  /\ [](\A a \in token_ : \A b \in rebuilt : a = b)
  /\ [](\A objects_ \in token_ \cup rebuilt :
          /\ \A i \in 1..Len(state_) :
               LET key == state_[i]
               IN /\ objects_[key.public_key_handle] =
                       NewObjectOf(key.crypto_key_version, CKO.public_key)
                  /\ objects_[key.private_key_handle] =
                       NewObjectOf(key.crypto_key_version, CKO.private_key)
                  /\ key.has_certificate =>
                       objects_[key.certificate_handle] =
                         NewObjectOf(key.crypto_key_version, CKO.certificate)
          /\ DOMAIN objects_ = UNION {EntryHandles(state_[i]) : i \in 1..Len(state_)})
  /\ [][(ld_pc = "objects" \/ ld_pc = "done") => (ld_log'.rpcs = ld_log.rpcs)]_vars

\* A snapshot of two entries has been materialized a second time.
C18_Witness ==
  /\ Len(state_) = 2
  /\ token_ # None
  /\ rebuilt # None
  /\ rebuilt = token_

(* C19: objects per entry.  After Token::New succeeds, every entry of the snapshot
   contributes exactly one public-key object and one private-key object, and exactly
   one certificate object if certificate generation was enabled and none otherwise;
   the objects of one entry carry the key-version name of the entry and have distinct
   handles; the registry holds nothing else. *)
C19_ObjectsPerEntry ==
  \A objects_ \in token_ :
    LET of(n, c) == {h \in DOMAIN objects_ : objects_[h] = NewObjectOf(n, c)}
    IN /\ \A i \in 1..Len(state_) :
            LET n == state_[i].crypto_key_version
            IN /\ Cardinality(of(n, CKO.public_key)) = 1
               /\ Cardinality(of(n, CKO.private_key)) = 1
               /\ Cardinality(of(n, CKO.certificate)) = IF generate_certs THEN 1 ELSE 0
               /\ of(n, CKO.public_key) # of(n, CKO.private_key)
       /\ Cardinality(DOMAIN objects_) = Len(state_) * (IF generate_certs THEN 3 ELSE 2)
       /\ \A h \in DOMAIN objects_ :
            \E i \in 1..Len(state_) : objects_[h].kms_key_name = state_[i].crypto_key_version

\* Token::New with certificate generation has succeeded with one entry: three
\* objects of one key version.
C19_Witness ==
  /\ generate_certs
  /\ ld_pc = "done"
  /\ Len(state_) = 1
  /\ \E objects_ \in token_ : Cardinality(DOMAIN objects_) = 3


\* ------------------------------------------------------- buffer-query convention

\* The size query followed by the call with a buffer of the reported length, for
\* every live handle (pair), known property, buffer-length argument of the query and
\* legal flags word; services: the outcomes of the remote signing request that the
\* second SignHash is taken over.
SizeQueryRoundTrip(services) ==
  LET lengths == {0, 1, 4, 63, 64, 65}
      names == {"NCRYPT_IMPL_TYPE_PROPERTY", "kEndpointAddressProperty",
                "NCRYPT_KEY_USAGE_PROPERTY", "NCRYPT_ALGORITHM_PROPERTY"}
      Sized(q) == q.status = "OK" /\ q.output = None /\ q.cbResult # None
      Filled(f, n) == f.status = "OK" /\ f.cbResult = Some(n) /\ f.output # None
  IN /\ \A p \in Addr, name \in names, cb \in lengths, fl \in {NoFlags, Silent} :
          (ValidateProviderHandle(p) = "OK"
             /\ ProviderGetProperty(heap[p], name).status = "OK")
          => LET q == GetProviderPropertyResult(p, name, TRUE, cb, FALSE, fl)
             IN /\ Sized(q)
                /\ \A n \in q.cbResult :
                     LET f == GetProviderPropertyResult(p, name, FALSE, n, FALSE, fl)
                     IN Filled(f, n) /\ \A v \in f.output : Len(v) = n
     /\ \A p \in Addr, k \in Addr, name \in names, cb \in lengths, fl \in {NoFlags, Silent} :
          (ValidateKeyHandle(p, k) = "OK"
             /\ ObjectGetProperty(heap[k], name).status = "OK")
          => LET q == GetKeyPropertyResult(p, k, name, TRUE, cb, FALSE, fl)
             IN /\ Sized(q)
                /\ \A n \in q.cbResult :
                     LET f == GetKeyPropertyResult(p, k, name, FALSE, n, FALSE, fl)
                     IN Filled(f, n) /\ \A v \in f.output : Len(v) = n
     /\ \A p \in Addr, k \in Addr, cb \in lengths, fl \in {NoFlags, Silent} :
          (ValidateKeyHandle(p, k) = "OK" /\ ValidateKeyPreconditions(heap[k]) = "OK")
          => \A asked \in BOOLEAN :
               LET q == SignHashResult(p, k, TRUE, Some("digest1"), TRUE, cb, FALSE, fl, asked)
               IN /\ Sized(q)
                  /\ q.remote = None
                  /\ \A n \in q.cbResult : \A serviceOk \in services :
                       Filled(SignHashResult(p, k, TRUE, Some("digest1"), FALSE, n, FALSE,
                                             fl, serviceOk), n)

\* C20 as stated: the call that follows the size query with a buffer of exactly the
\* reported length succeeds and fills the buffer, for GetProviderProperty,
\* GetKeyProperty and SignHash alike, whatever the remote service does.
C20_SizeQueryAnyService == SizeQueryRoundTrip(BOOLEAN)

(* C20: size query.  For GetProviderProperty, GetKeyProperty and SignHash a call with
   a null output buffer and otherwise valid arguments succeeds for every value of the
   buffer-length argument, writes the required size and no data, and (SignHash) makes
   no remote request; a following call with a buffer of exactly that length reports
   the same length and, for the two property calls always and for SignHash when the
   remote signing request succeeds, succeeds and fills the buffer.  Every successful
   return of the three calls has written the size. *)
C20_SizeQuery ==
  /\ SizeQueryRoundTrip({TRUE})
  /\ (br_last.op \in {"GetProviderProperty", "GetKeyProperty", "SignHash"}
        /\ br_last.status = "OK") => br_last.cbResult # None
  /\ \A p \in Addr, k \in Addr :
       (ValidateKeyHandle(p, k) = "OK" /\ ValidateKeyPreconditions(heap[k]) = "OK")
       => LET f == SignHashResult(p, k, TRUE, Some("digest1"), FALSE, 64, FALSE, NoFlags, FALSE)
          IN f.status # "OK" /\ f.cbResult = Some(64) /\ f.output = None

\* A SignHash size query with a buffer-length argument of zero has returned the
\* signature length for a key opened under a live provider handle.
C20_Witness ==
  /\ br_last.op = "SignHash"
  /\ br_last.status = "OK"
  /\ br_last.output = None
  /\ br_last.cbResult = Some(64)
  /\ br_last.handles = "owner"

----------------------------------------------------------------------------
\* The three calls with a buffer shorter than the required size, for every live
\* handle (pair), known property, legal flags word and shorter length.
TooSmallResults ==
  LET names == {"NCRYPT_IMPL_TYPE_PROPERTY", "kEndpointAddressProperty",
                "NCRYPT_KEY_USAGE_PROPERTY", "NCRYPT_ALGORITHM_PROPERTY"}
      TooSmall(r, required) ==
        /\ r.status = "NTE_BUFFER_TOO_SMALL"
        /\ r.output = None
        /\ r.remote = None
        /\ r.cbResult \subseteq {required}
  IN /\ \A p \in Addr, name \in names, fl \in {NoFlags, Silent} :
          (ValidateProviderHandle(p) = "OK"
             /\ ProviderGetProperty(heap[p], name).status = "OK")
          => LET required == Len(ProviderGetProperty(heap[p], name).value)
             IN \A cb \in 0..(required - 1) :
                  TooSmall(GetProviderPropertyResult(p, name, FALSE, cb, FALSE, fl),
                           required)
     /\ \A p \in Addr, k \in Addr, name \in names, fl \in {NoFlags, Silent} :
          (ValidateKeyHandle(p, k) = "OK"
             /\ ObjectGetProperty(heap[k], name).status = "OK")
          => LET required == Len(ObjectGetProperty(heap[k], name).value)
             IN \A cb \in 0..(required - 1) :
                  TooSmall(GetKeyPropertyResult(p, k, name, FALSE, cb, FALSE, fl),
                           required)
     /\ \A p \in Addr, k \in Addr, fl \in {NoFlags, Silent}, serviceOk \in BOOLEAN :
          (ValidateKeyHandle(p, k) = "OK" /\ ValidateKeyPreconditions(heap[k]) = "OK")
          => \A cb \in {0, 1, 32, SignatureLength(heap[k]) - 1} :
               TooSmall(SignHashResult(p, k, TRUE, Some("digest1"), FALSE, cb, FALSE,
                                       fl, serviceOk),
                        SignatureLength(heap[k]))

(* C21: buffer too small.  For GetProviderProperty, GetKeyProperty and SignHash a
   call with valid handles, otherwise valid arguments and a non-null output buffer
   whose length is smaller than the required size fails with buffer-too-small,
   writes nothing to the output buffer, and leaves the size-output either untouched
   or equal to the required size; SignHash makes no remote request; the step leaves
   the heap as it was. *)
C21_BufferTooSmall ==
  /\ []TooSmallResults
  /\ [][br_last'.status = "NTE_BUFFER_TOO_SMALL"
        => /\ br_last'.op \in {"GetProviderProperty", "GetKeyProperty", "SignHash"}
           /\ br_last'.output = None
           /\ br_last'.remote = None
           /\ heap' = heap]_vars

\* A GetKeyProperty for the four-byte key usage with a buffer of no bytes has failed
\* with buffer-too-small and the required size written.
C21_Witness ==
  /\ br_last.op = "GetKeyProperty"
  /\ br_last.status = "NTE_BUFFER_TOO_SMALL"
  /\ br_last.handles = "owner"
  /\ br_last.cbResult = Some(4)
  /\ br_last.output = None

----------------------------------------------------------------------------
\* Every flags word over three bits, and the two words ValidateFlags lets through.
FlagWords ==
  SUBSET {"NCRYPT_SILENT_FLAG", "NCRYPT_MACHINE_KEY_FLAG", "NCRYPT_PERSIST_ONLY_FLAG"}
LegalFlags == {NoFlags, Silent}

\* The five entry points with valid handles and pointers, every property name and
\* every flags word: the call gets past the flags check iff the word is legal, and a
\* call that does not returns bad-flags with nothing written and the heap as it was.
FlagsAllowList ==
  LET names == {"NCRYPT_IMPL_TYPE_PROPERTY", "kEndpointAddressProperty",
                "NCRYPT_KEY_USAGE_PROPERTY", "NCRYPT_UI_POLICY_PROPERTY"}
      Rejected(r, op) == r = BrFail(op, "NTE_BAD_FLAGS")
      Decided(r, op, fl) ==
        IF fl \in LegalFlags THEN r.status # "NTE_BAD_FLAGS" ELSE Rejected(r, op)
  IN /\ \A fl \in FlagWords :
          OpenProviderChecks(FALSE, kProviderName, fl) =
            IF fl \in LegalFlags THEN "OK" ELSE "NTE_BAD_FLAGS"
     /\ \A fl \in FlagWords, p \in Addr, name \in names :
          ValidateProviderHandle(p) = "OK"
          => /\ \A pbOutputNull \in BOOLEAN, cb \in {0, 4} :
                  Decided(GetProviderPropertyResult(p, name, pbOutputNull, cb, FALSE, fl),
                          "GetProviderProperty", fl)
             /\ \A v \in {DefaultEndpoint, OtherEndpoint} :
                  LET s == SetProviderPropertyResult(p, name, Some(v), fl)
                  IN IF fl \in LegalFlags THEN s.status # "NTE_BAD_FLAGS"
                     ELSE s.status = "NTE_BAD_FLAGS" /\ s.heap = heap
     /\ \A fl \in FlagWords, p \in Addr, k \in Addr :
          ValidateKeyHandle(p, k) = "OK"
          => /\ \A name \in names, pbOutputNull \in BOOLEAN, cb \in {0, 4} :
                  Decided(GetKeyPropertyResult(p, k, name, pbOutputNull, cb, FALSE, fl),
                          "GetKeyProperty", fl)
             /\ \A pbSignatureNull \in BOOLEAN, cb \in {0, 64}, serviceOk \in BOOLEAN :
                  Decided(SignHashResult(p, k, TRUE, Some("digest1"), pbSignatureNull, cb,
                                         FALSE, fl, serviceOk),
                          "SignHash", fl)

(* C22: flags allow-list.  OpenProvider, GetProviderProperty, SetProviderProperty,
   GetKeyProperty and SignHash, called with handles and pointers that pass the
   earlier checks, accept a flags word only if it is zero or exactly the silent
   flag; every other word, the silent flag combined with another bit included, fails
   with bad-flags, and the call performs no operation: no handle, size, output or
   remote request, and the heap as it was.  No call of the five with a flags word
   outside the allow-list succeeds. *)
C22_FlagsAllowList ==
  /\ []FlagsAllowList
  /\ [][br_last'.status = "NTE_BAD_FLAGS"
        => /\ br_last' = WithCase(BrFail(br_last'.op, "NTE_BAD_FLAGS"),
                                  br_last'.handles, br_last'.orphan, br_last'.args)
           /\ heap' = heap]_vars
  /\ [][(br_last'.op # "OpenKey" /\ "d" \in br_last'.args)
        => br_last'.status # "OK" /\ heap' = heap]_vars

\* A SignHash with valid handles and pointers and the silent flag combined with the
\* machine-key bit has failed with bad-flags, without a remote request.
C22_Witness ==
  /\ br_last.op = "SignHash"
  /\ br_last.status = "NTE_BAD_FLAGS"
  /\ br_last.handles = "owner"
  /\ br_last.args = {"d"}
  /\ br_last.remote = None

----------------------------------------------------------------------------
\* The key names OpenKey is called with, and the legacy key specs it lets through.
KeyNames == {"ckv_ec_p256_hsm", "ckv_absent", "ckv_unsupported", "ckv_software"}
LegacyKeySpecs == {"AT_KEYEXCHANGE", "AT_SIGNATURE"}

\* OpenKey with a non-zero provider handle, non-null pointers, a legal legacy key spec
\* and every flags word: the checks before Object::New fail with bad-flags iff a bit
\* other than the silent and the machine-key bit is set, and pass otherwise.
OpenKeyFlags ==
  \A fl \in FlagWords, p \in Addr, name \in KeyNames, spec \in LegacyKeySpecs :
    /\ OpenKeyChecks(p, FALSE, name, spec, fl) =
         IF fl \subseteq {"NCRYPT_SILENT_FLAG", "NCRYPT_MACHINE_KEY_FLAG"}
           THEN "OK" ELSE "NTE_BAD_FLAGS"
    /\ OpenKeyStatus(p, FALSE, name, spec, fl) = "NTE_BAD_FLAGS"
         <=> fl \ {"NCRYPT_SILENT_FLAG", "NCRYPT_MACHINE_KEY_FLAG"} # {}
    /\ OpenKeyStatus(p, FALSE, name, spec, fl)
         = OpenKeyStatus(p, FALSE, name, spec,
                         fl \ {"NCRYPT_SILENT_FLAG", "NCRYPT_MACHINE_KEY_FLAG"})

(* C23: OpenKey flag handling.  The silent-mode and machine-key bits are ignored:
   with arguments that pass the earlier checks, every combination of only these two
   bits is accepted, the call fails with bad-flags iff any other bit is set, and the
   status of the call is the status it has with the two bits cleared.  An OpenKey
   that fails with bad-flags issues no handle and leaves the heap as it was. *)
C23_OpenKeyFlags ==
  /\ []OpenKeyFlags
  /\ [][(br_last'.op = "OpenKey" /\ br_last'.status = "NTE_BAD_FLAGS")
        => br_last'.handle = None /\ heap' = heap]_vars
  /\ [][(br_last'.op = "OpenKey" /\ br_last'.handles = "live" /\ br_last'.args = {"d"})
        => br_last'.status = "NTE_BAD_FLAGS"]_vars

\* An OpenKey under a live provider handle with a bit other than the two ignored ones
\* has failed with bad-flags while a key opened earlier is held.
C23_Witness ==
  /\ br_last.op = "OpenKey"
  /\ br_last.status = "NTE_BAD_FLAGS"
  /\ br_last.handles = "live"
  /\ br_last.args = {"d"}
  /\ \E k \in Addr : LiveObject(k)

----------------------------------------------------------------------------
\* OpenKey with a non-zero provider handle and every legacy key spec, whatever the
\* other arguments: a spec that is neither selector gives invalid-parameter, and the
\* call succeeds only with one of the two selectors.
OpenKeyLegacyKeySpec ==
  \A p \in Addr, phKeyNull \in BOOLEAN, name \in KeyNames \cup {NULL}, fl \in FlagWords :
    /\ \A spec \in {"0", "3", "AT_KEYEXCHANGE | AT_SIGNATURE", "0xFFFFFFFF"} :
         OpenKeyStatus(p, phKeyNull, name, spec, fl) = "NTE_INVALID_PARAMETER"
    /\ \A spec \in LegacyKeySpecs :
         /\ OpenKeyStatus(p, phKeyNull, name, "AT_SIGNATURE", fl)
              = OpenKeyStatus(p, phKeyNull, name, spec, fl)
         /\ OpenKeyStatus(p, FALSE, "ckv_ec_p256_hsm", spec, NoFlags) =
              ValidateProviderHandle(p)

(* C24: OpenKey accepts a legacy key spec only if it is the signature selector or the
   key-exchange selector (the two are treated alike); with a non-zero provider handle
   every other value, zero included, fails with invalid-parameter whatever the other
   arguments are, and no Object is created: a failed OpenKey writes no key handle
   and leaves the heap as it was, and a successful one creates exactly one Object. *)
C24_LegacyKeySpec ==
  /\ []OpenKeyLegacyKeySpec
  /\ [][(br_last'.op = "OpenKey" /\ br_last'.status # "OK")
        => br_last'.handle = None /\ heap' = heap]_vars
  /\ [][(br_last'.op = "OpenKey" /\ br_last'.handles = "live" /\ "c" \in br_last'.args)
        => br_last'.status = "NTE_INVALID_PARAMETER"]_vars
  /\ [][(br_last'.op = "OpenKey" /\ br_last'.status = "OK")
        => \E k \in br_last'.handle :
             /\ heap[k].kind = "free"
             /\ heap'[k].kind = "object"
             /\ \A a \in Addr \ {k} : heap'[a] = heap[a]]_vars

\* An OpenKey under a live provider handle has failed a pointer / selector check with
\* invalid-parameter, in a state where the call with a key spec of zero and otherwise
\* valid arguments gives exactly that.
C24_Witness ==
  /\ br_last.op = "OpenKey"
  /\ br_last.status = "NTE_INVALID_PARAMETER"
  /\ br_last.handles = "live"
  /\ br_last.args = {"c"}
  /\ \E p \in Addr :
       /\ LiveProvider(p)
       /\ OpenKeyStatus(p, FALSE, "ckv_ec_p256_hsm", "0", NoFlags) = "NTE_INVALID_PARAMETER"
       /\ OpenKeyStatus(p, FALSE, "ckv_ec_p256_hsm", "AT_SIGNATURE", NoFlags) = "OK"

----------------------------------------------------------------------------
\* OpenKey under a live provider handle with arguments that pass the checks of the
\* bridge: the status by what the remote service has under the name.
OpenKeyErrorKinds ==
  \A p \in Addr, name \in KeyNames, spec \in LegacyKeySpecs, fl \in {NoFlags, Silent, SilentMachineKey} :
    ValidateProviderHandle(p) = "OK"
    => OpenKeyStatus(p, FALSE, name, spec, fl) =
         IF name \notin DOMAIN KmsKeyVersions THEN "NTE_BAD_KEYSET"
         ELSE IF KmsKeyVersions[name].algorithm # "EC_SIGN_P256_SHA256"
                   \/ KmsKeyVersions[name].protection_level # "HSM"
           THEN "NTE_NOT_SUPPORTED"
         ELSE "OK"

(* C25: OpenKey error kinds.  With a live provider handle and arguments that pass the
   checks of the bridge, OpenKey on a name for which no key exists fails with
   bad-keyset (not found); OpenKey on an existing key whose algorithm or protection
   level is outside the supported set fails with not-supported; in both cases no key
   handle is issued and the heap stays as it was, so every live Object is of a
   supported key. *)
C25_OpenKeyErrorKinds ==
  /\ []OpenKeyErrorKinds
  /\ [](\A k \in Addr :
          LiveObject(k) => /\ heap[k].name \in DOMAIN KmsKeyVersions
                           /\ KmsKeyVersions[heap[k].name].algorithm = "EC_SIGN_P256_SHA256"
                           /\ KmsKeyVersions[heap[k].name].protection_level = "HSM")
  /\ [][(br_last'.op = "OpenKey"
           /\ br_last'.status \in {"NTE_BAD_KEYSET", "NTE_NOT_SUPPORTED"})
        => /\ br_last'.handles = "live"
           /\ br_last'.args = {}
           /\ br_last'.handle = None
           /\ heap' = heap]_vars

\* An OpenKey under a live provider handle has failed with not-supported while the
\* same handle holds an open key of the supported kind.
C25_Witness ==
  /\ br_last.op = "OpenKey"
  /\ br_last.status = "NTE_NOT_SUPPORTED"
  /\ br_last.handles = "live"
  /\ br_last.handle = None
  /\ \E k \in Addr : LiveObject(k) /\ LiveProvider(heap[k].prov)

----------------------------------------------------------------------------
\* The key handle hKey is usable under hProvider: GetKeyProperty and SignHash with
\* valid arguments succeed, and FreeKey would.
KeyUsable(hProvider, hKey) ==
  /\ GetKeyPropertyResult(hProvider, hKey, "NCRYPT_KEY_USAGE_PROPERTY", FALSE, 4, FALSE,
                          NoFlags).status = "OK"
  /\ LET s == SignHashResult(hProvider, hKey, TRUE, Some("digest1"), FALSE, 64, FALSE,
                             NoFlags, TRUE)
     IN s.status = "OK" /\ s.output # None
  /\ FreeKeyResult(hProvider, hKey).status = "OK"

\* Two Objects open at once for one key name under one provider handle.
OpenedTwice(hProvider, k1, k2) ==
  /\ k1 # k2
  /\ ValidateKeyHandle(hProvider, k1) = "OK"
  /\ ValidateKeyHandle(hProvider, k2) = "OK"
  /\ heap[k1].name = heap[k2].name

(* C26: independent opens.  An OpenKey for a key name under a provider handle
   succeeds whether or not an Object for that name is already open under the handle,
   and returns the address of a cell that was free, so a handle distinct from every
   key handle in use (the allocation is the one step of the call that touches shared
   state, so concurrent calls behave as the two orders of sequential ones); two
   Objects of one name sign under the same remote identity and give the same property
   values; and a successful FreeKey of one handle leaves every other live Object as
   it was, usable for GetKeyProperty, SignHash and FreeKey. *)
C26_IndependentOpens ==
  /\ [](\A p \in Addr, spec \in LegacyKeySpecs :
          ValidateProviderHandle(p) = "OK"
          => OpenKeyStatus(p, FALSE, "ckv_ec_p256_hsm", spec, NoFlags) = "OK")
  /\ [](\A p \in Addr, k1 \in Addr, k2 \in Addr :
          OpenedTwice(p, k1, k2)
          => /\ KeyUsable(p, k1) /\ KeyUsable(p, k2)
             /\ SignHashResult(p, k1, TRUE, Some("digest1"), FALSE, 64, FALSE, NoFlags, TRUE)
                  = SignHashResult(p, k2, TRUE, Some("digest1"), FALSE, 64, FALSE, NoFlags, TRUE)
             /\ GetKeyPropertyResult(p, k1, "NCRYPT_KEY_USAGE_PROPERTY", FALSE, 4, FALSE, NoFlags)
                  = GetKeyPropertyResult(p, k2, "NCRYPT_KEY_USAGE_PROPERTY", FALSE, 4, FALSE, NoFlags))
  /\ [][(br_last'.op = "OpenKey" /\ br_last'.status = "OK")
        => \E k \in br_last'.handle :
             /\ ~LiveObject(k) /\ ~LiveProvider(k)
             /\ heap'[k].kind = "object"
             /\ \A a \in Addr \ {k} : heap'[a] = heap[a]]_vars
  /\ [][(br_last'.op = "FreeKey" /\ br_last'.status = "OK")
        => \A p \in Addr, k1 \in Addr, k2 \in Addr :
             (OpenedTwice(p, k1, k2) /\ heap'[k1].kind = "free")
             => /\ heap'[k2] = heap[k2]
                /\ KeyUsable(p, k2)']_vars

\* A second OpenKey for the same key name under the same live provider handle has
\* just succeeded: two Objects of one name, at two addresses.
C26_Witness ==
  /\ br_last.op = "OpenKey"
  /\ br_last.status = "OK"
  /\ \E p \in Addr, k1 \in Addr, k2 \in Addr :
       /\ OpenedTwice(p, k1, k2)
       /\ br_last.handle = Some(k2)

----------------------------------------------------------------------------
\* What GetProviderProperty returns for a property, with a buffer that fits.
StoredProperty(hProvider, pszProperty) ==
  GetProviderPropertyResult(hProvider, pszProperty, FALSE, 4, FALSE, NoFlags)

MutableProperties == {"kEndpointAddressProperty", "kChannelCredentialsProperty"}
PropertyValues ==
  {DefaultEndpoint, OtherEndpoint, DefaultCredentials, InsecureCredentials, ImplTypeValue}

\* SetProviderProperty of a mutable property on a live Provider with valid arguments
\* succeeds and stores the value under that name of that Provider and nowhere else.
SetStoresOneValue ==
  \A p \in Addr, name \in MutableProperties, v \in PropertyValues, fl \in LegalFlags :
    ValidateProviderHandle(p) = "OK"
    => LET s == SetProviderPropertyResult(p, name, Some(v), fl)
       IN /\ s.status = "OK"
          /\ ProviderGetProperty(s.heap[p], name) = [status |-> "OK", value |-> v]
          /\ \A n \in PropertyNames \ {name} :
               ProviderGetProperty(s.heap[p], n) = ProviderGetProperty(heap[p], n)
          /\ \A a \in Addr \ {p} : s.heap[a] = heap[a]

(* C27: provider property set/get round trip.  After SetProviderProperty(p, name, v)
   has succeeded on a mutable property, GetProviderProperty(p, name) returns exactly
   v with size |v|; the value GetProviderProperty returns for a property of a live
   Provider changes only in a step that is a successful SetProviderProperty; and a
   successful set changes the value of one property of one Provider and of no other
   property or Provider. *)
C27_SetGetRoundTrip ==
  /\ []SetStoresOneValue
  /\ [][(br_last'.op = "SetProviderProperty" /\ br_last'.status = "OK")
        => \E p \in Addr, name \in MutableProperties, v \in PropertyValues :
             /\ LiveProvider(p)
             /\ heap' = SetProviderPropertyResult(p, name, Some(v), NoFlags).heap
             /\ GetProviderPropertyResult(p, name, FALSE, Len(v), FALSE, NoFlags)'
                  = BrReturn("GetProviderProperty", "OK", None, Some(Len(v)), Some(v), None)
             /\ \A q \in Addr, n \in PropertyNames :
                  <<q, n>> # <<p, name>> => StoredProperty(q, n)' = StoredProperty(q, n)]_vars
  /\ [][(heap' # heap /\ ~(br_last'.op = "SetProviderProperty" /\ br_last'.status = "OK"))
        => \A p \in Addr, n \in PropertyNames :
             (LiveProvider(p) /\ LiveProvider(p)')
             => StoredProperty(p, n)' = StoredProperty(p, n)]_vars

\* GetProviderProperty has returned the credentials value that was set on one
\* Provider, whose endpoint still has its initial value, while another live Provider
\* has the initial credentials.
C27_Witness ==
  /\ br_last.op = "GetProviderProperty"
  /\ br_last.status = "OK"
  /\ br_last.output = Some(InsecureCredentials)
  /\ br_last.cbResult = Some(Len(InsecureCredentials))
  /\ \E p \in Addr, q \in Addr :
       /\ LiveProvider(p) /\ LiveProvider(q)
       /\ heap[p].credentials = InsecureCredentials
       /\ heap[p].endpoint = DefaultEndpoint
       /\ heap[q].credentials = DefaultCredentials

----------------------------------------------------------------------------
\* SetProviderProperty with every handle value, property name, input and flags word:
\* on the fixed property of a live Provider, with valid arguments, it fails with
\* invalid-parameter whatever the value; and whenever it fails it leaves the heap.
SetFixedOrFailed ==
  /\ \A p \in Addr, v \in PropertyValues, fl \in LegalFlags :
       ValidateProviderHandle(p) = "OK"
       => SetProviderPropertyResult(p, "NCRYPT_IMPL_TYPE_PROPERTY", Some(v), fl)
            = [status |-> "NTE_INVALID_PARAMETER", heap |-> heap]
  /\ \A p \in HandleArgs, name \in PropertyNames \cup {NULL}, fl \in FlagWords,
        pbInput \in {None} \cup {Some(v) : v \in PropertyValues} :
       LET s == SetProviderPropertyResult(p, name, pbInput, fl)
       IN s.status # "OK" => s.heap = heap

(* C28: immutable provider properties never change.  SetProviderProperty on the
   fixed-value property fails with invalid-parameter for every supplied value, its
   current value included; in every reachable state GetProviderProperty on that
   property of a live Provider returns its initial value, with its size; and every
   failed SetProviderProperty leaves all property values, the heap, as they were. *)
C28_ImmutableProperty ==
  /\ []SetFixedOrFailed
  /\ [](\A p \in Addr :
          LiveProvider(p)
          => /\ heap[p].impl_type = ImplTypeValue
             /\ StoredProperty(p, "NCRYPT_IMPL_TYPE_PROPERTY")
                  = BrReturn("GetProviderProperty", "OK", None, Some(Len(ImplTypeValue)),
                             Some(ImplTypeValue), None))
  /\ [][(br_last'.op = "SetProviderProperty" /\ br_last'.status # "OK") => heap' = heap]_vars

\* A SetProviderProperty with valid handle, pointers and flags has failed with
\* invalid-parameter (the fixed property) on a Provider both of whose mutable
\* properties had been set before.
C28_Witness ==
  /\ br_last.op = "SetProviderProperty"
  /\ br_last.status = "NTE_INVALID_PARAMETER"
  /\ br_last.handles = "live"
  /\ br_last.args = {}
  /\ \A p \in Addr :
       LiveProvider(p) => /\ heap[p].endpoint = OtherEndpoint
                          /\ heap[p].credentials = InsecureCredentials
  /\ \E p \in Addr : LiveProvider(p)

----------------------------------------------------------------------------
\* The three property calls with valid handles, non-null pointers, legal flags and a
\* name that is no property of the object addressed (the properties of a Provider
\* are no properties of a key, and conversely).
UnknownPropertyNames ==
  LET unknown == {"NCRYPT_UI_POLICY_PROPERTY", "", "ncrypt_impl_type_property"}
      providerOnly == {"NCRYPT_IMPL_TYPE_PROPERTY", "kEndpointAddressProperty",
                       "kChannelCredentialsProperty"}
      keyOnly == {"NCRYPT_KEY_USAGE_PROPERTY", "NCRYPT_ALGORITHM_PROPERTY"}
  IN /\ \A p \in Addr, name \in unknown \cup keyOnly, fl \in LegalFlags :
          ValidateProviderHandle(p) = "OK"
          => /\ \A pbOutputNull \in BOOLEAN, cb \in {0, 4} :
                  GetProviderPropertyResult(p, name, pbOutputNull, cb, FALSE, fl)
                    = BrFail("GetProviderProperty", "NTE_NOT_SUPPORTED")
             /\ \A v \in {DefaultEndpoint, OtherEndpoint, ImplTypeValue} :
                  SetProviderPropertyResult(p, name, Some(v), fl)
                    = [status |-> "NTE_NOT_SUPPORTED", heap |-> heap]
     /\ \A p \in Addr, k \in Addr, name \in unknown \cup providerOnly, fl \in LegalFlags,
           pbOutputNull \in BOOLEAN, cb \in {0, 4} :
          ValidateKeyHandle(p, k) = "OK"
          => GetKeyPropertyResult(p, k, name, pbOutputNull, cb, FALSE, fl)
               = BrFail("GetKeyProperty", "NTE_NOT_SUPPORTED")

(* C29: unknown property names.  GetProviderProperty, SetProviderProperty and
   GetKeyProperty called with valid handles, non-null pointers and legal flags but a
   property name outside the supported set fail with not-supported, write no size and
   no output, and change no state. *)
C29_UnknownPropertyName ==
  /\ []UnknownPropertyNames
  /\ [][(br_last'.op \in {"GetProviderProperty", "SetProviderProperty", "GetKeyProperty"}
           /\ br_last'.status = "NTE_NOT_SUPPORTED")
        => /\ br_last'.handles \in {"live", "owner"}
           /\ br_last'.args = {}
           /\ br_last'.cbResult = None
           /\ br_last'.output = None
           /\ heap' = heap]_vars

\* A GetKeyProperty with valid handles, pointers and flags has failed with
\* not-supported, nothing written.
C29_Witness ==
  /\ br_last.op = "GetKeyProperty"
  /\ br_last.status = "NTE_NOT_SUPPORTED"
  /\ br_last.handles = "owner"
  /\ br_last.args = {}
  /\ br_last.cbResult = None
  /\ br_last.output = None

----------------------------------------------------------------------------
\* The OpenProvider checks for every provider name, flags word and phProvider: they
\* pass iff phProvider is non-null, the name is exactly this provider's name and the
\* flags are legal; a null or any other name gives invalid-parameter whatever the
\* flags are.
OpenProviderName ==
  \A phProviderNull \in BOOLEAN, name \in ProviderNames, fl \in FlagWords :
    LET st == OpenProviderChecks(phProviderNull, name, fl)
    IN /\ st = "OK" <=> (~phProviderNull /\ name # NULL /\ name = kProviderName
                           /\ fl \in LegalFlags)
       /\ name # kProviderName => st = "NTE_INVALID_PARAMETER"

(* C30: OpenProvider allocates a Provider and returns its handle only when the
   supplied name is non-null and exactly equal to this provider's name and the flags
   are legal (and phProvider is non-null, which the call needs to return a handle);
   for a null, default or any other name it fails with invalid-parameter; a failed
   OpenProvider returns no handle and leaves the heap as it was, a successful one
   makes exactly one new Provider with the initial property values at a free
   address, and no other call makes a Provider. *)
C30_OpenProviderName ==
  /\ []OpenProviderName
  /\ [][br_last'.op = "OpenProvider"
        => IF br_last'.status = "OK"
             THEN /\ br_last'.args = {}
                  /\ \E a \in br_last'.handle :
                       /\ heap[a].kind = "free"
                       /\ heap'[a] = NewProvider
                       /\ \A b \in Addr \ {a} : heap'[b] = heap[b]
             ELSE /\ br_last'.handle = None
                  /\ heap' = heap]_vars
  /\ [][(heap' # heap /\ \E a \in Addr : ~LiveProvider(a) /\ LiveProvider(a)')
        => br_last'.op = "OpenProvider" /\ br_last'.status = "OK"]_vars

\* An OpenProvider has failed a pointer / name check with invalid-parameter while a
\* Provider opened earlier under the right name is live, in a state where the call
\* with the default provider's name gives exactly that.
C30_Witness ==
  /\ br_last.op = "OpenProvider"
  /\ br_last.status = "NTE_INVALID_PARAMETER"
  /\ br_last.args = {"c"}
  /\ br_last.handle = None
  /\ \E a \in Addr : LiveProvider(a)
  /\ \E a \in Addr : heap[a].kind = "free"
  /\ OpenProviderChecks(FALSE, "MS_KEY_STORAGE_PROVIDER", NoFlags) = "NTE_INVALID_PARAMETER"

----------------------------------------------------------------------------
\* SignHash with valid arguments and a buffer of at least the signature length, the
\* remote service answering: the request, the signature and the size it leaves.
SignHashBinding ==
  \A p \in Addr, k \in Addr, d \in {"digest1", "digest2"}, cb \in {64, 65, 128},
     fl \in LegalFlags :
    (ValidateKeyHandle(p, k) = "OK" /\ ValidateKeyPreconditions(heap[k]) = "OK")
    => LET r == SignHashResult(p, k, TRUE, Some(d), FALSE, cb, FALSE, fl, TRUE)
       IN /\ r.status = "OK"
          /\ r.remote = Some([name |-> heap[k].name, digest |-> d])
          /\ r.output = Some([signed_by |-> heap[k].name, digest |-> d])
          /\ r.cbResult = Some(64)
          /\ KmsKeyVersions[heap[k].name].algorithm = "EC_SIGN_P256_SHA256"

(* C31: SignHash result binding.  A SignHash with valid arguments and a buffer of at
   least the required size issues one remote sign request, naming exactly the key
   version the handle was opened with and carrying exactly the caller's digest,
   writes the raw signature the service returns for that request into the caller's
   buffer, and reports the fixed signature length of the key's algorithm, 64 bytes
   for a P-256 key; the call changes no object. *)
C31_SignHashBinding ==
  /\ []SignHashBinding
  /\ [][(br_last'.op = "SignHash" /\ br_last'.output # None)
        => /\ br_last'.status = "OK"
           /\ br_last'.handles = "owner"
           /\ br_last'.cbResult = Some(64)
           /\ Cardinality(br_last'.remote) = 1
           /\ \A sig \in br_last'.output : \A req \in br_last'.remote :
                /\ sig.signed_by = req.name
                /\ sig.digest = req.digest
                /\ req.digest \in {"digest1", "digest2"}
                /\ \E k \in Addr : LiveObject(k) /\ heap[k].name = req.name
           /\ heap' = heap]_vars

\* A SignHash has returned the signature of the second digest under the key version
\* its handle was opened with.
C31_Witness ==
  /\ br_last.op = "SignHash"
  /\ br_last.status = "OK"
  /\ br_last.cbResult = Some(64)
  /\ br_last.remote = Some([name |-> "ckv_ec_p256_hsm", digest |-> "digest2"])
  /\ br_last.output = Some([signed_by |-> "ckv_ec_p256_hsm", digest |-> "digest2"])

----------------------------------------------------------------------------
(* C32: the object store of a Token is immutable after construction.  After
   Token::New has returned, no step of Login, Logout, is_logged_in or FindObjects
   adds, removes or rebinds a handle of the Token's registry, which stays the
   materialization of the snapshot it was built from; and a step of Login or Logout
   changes nothing but the login flag (and the login lock it holds meanwhile): not
   the registry, its lock or the result of a search. *)
C32_ObjectStoreImmutable ==
  /\ [][token_' = token_ /\ state_' = state_]_vars
  /\ [](token_ = Some(LoadObjectsFrom(state_, EmptyMap, 0).items))
  /\ [][(\E t \in Threads :
           \/ tk_pc[t] \in {"Login", "Logout"} /\ tk_pc'[t] = "idle"
           \/ tk_pc[t] = "idle" /\ tk_pc'[t] \in {"Login", "Logout"})
        => /\ ld_vars' = ld_vars
           /\ hm_vars' = hm_vars]_vars
  /\ [][is_logged_in_' # is_logged_in_
        => \E t \in Threads : tk_pc[t] \in {"Login", "Logout"} /\ tk_pc'[t] = "idle"]_vars

\* A Logout has succeeded after a search for all classes returned the four objects of
\* the Token; the registry still holds the four.
C32_Witness ==
  /\ tk_last.op = "Logout"
  /\ tk_last.status = OkStatus
  /\ \E f \in tk_found : Len(f.results) = 4
  /\ \E objects_ \in token_ : DOMAIN objects_ = ObjHandles
  /\ ~is_logged_in_

----------------------------------------------------------------------------
\* The handles of the map that a search for `predicate` matches.
Matching(m, predicate) == {h \in Handles : Contains(m, h) /\ m[h] \in predicate}

\* The lock a thread inside a method holds, and what a search has seen so far.
LockDiscipline ==
  /\ mutex_.writer # NoThread => mutex_.readers = {}
  /\ \A t \in Threads :
       /\ hm_pc[t] \in {"Add_loop", "Add_emplace", "AddDirect", "Remove"} <=> mutex_.writer = t
       /\ hm_pc[t] \in {"Get", "Find_scan", "Find_sort"} <=> t \in mutex_.readers
       /\ hm_pc[t] \in {"Find_scan", "Find_sort"} => items_ = hm_frame[t].seen
       /\ hm_pc[t] = "Find_sort" =>
            /\ Len(hm_frame[t].results) = Cardinality(Matching(items_, hm_frame[t].predicate))
            /\ {hm_frame[t].results[i] : i \in 1..Len(hm_frame[t].results)}
                 = Matching(items_, hm_frame[t].predicate)
  /\ hm_last.status # "out_of_range"

(* C33: the operations of a HandleMap are atomic under concurrency.  A thread inside
   Add, AddDirect or Remove holds the lock exclusively and a thread inside Get or
   Find holds it shared, so the map changes only in the returning step of the one
   writer while no other thread is inside any method: every concurrent execution
   equals the sequential order of those steps.  What Find returns is the set of the
   handles that match at one instant (the map from its lock to its return is one
   map), and its comparator is never applied to a handle removed meanwhile (at()
   never throws). *)
C33_HandleMapAtomic ==
  /\ []LockDiscipline
  /\ [][items_' # items_
        => \E t \in Threads :
             /\ mutex_.writer = t
             /\ hm_pc'[t] = "idle"
             /\ \A u \in Threads \ {t} : hm_pc[u] = "idle" /\ hm_pc'[u] = "idle"]_vars
  /\ [][(\E t \in Threads : hm_pc[t] = "Find_sort" /\ hm_pc'[t] = "idle")
        => /\ hm_last'.op = "Find"
           /\ hm_last'.status = "OK"
           /\ {hm_last'.results[i] : i \in 1..Len(hm_last'.results)}
                = Matching(items_, hm_last'.predicate)
           /\ Len(hm_last'.results) = Cardinality(Matching(items_, hm_last'.predicate))
           /\ hm_last'.sort_compare # "nullptr"
                => \A i, j \in 1..Len(hm_last'.results) :
                     i < j => ~sort_compare(hm_last'.sort_compare,
                                            items_[hm_last'.results[j]],
                                            items_[hm_last'.results[i]])]_vars

\* A sorting search has scanned a map of two matching handles and is about to sort
\* them while another thread is inside Get.
C33_Witness ==
  \E t, u \in Threads :
    /\ t # u
    /\ hm_pc[t] = "Find_sort"
    /\ Len(hm_frame[t].results) = 2
    /\ hm_frame[t].sort_compare # "nullptr"
    /\ hm_pc[u] = "Get"

----------------------------------------------------------------------------
(* C34: under a fair random draw, Add terminates whenever at least one handle value
   is unoccupied: a thread inside the loop of Add on a map that is not full returns.
   In the same way NewHandle of the loader returns whenever a handle value is not in
   allocated_handles_. *)
C34_DrawTerminates ==
  /\ \A t \in Threads :
       (hm_pc[t] = "Add_loop" /\ DOMAIN items_ # Handles) ~> (hm_pc[t] = "idle")
  /\ (ld_pc = "NewHandle" /\ allocated_handles_ # ObjHandles) ~> (ld_pc = "new")

\* A thread inside Add has drawn an occupied handle and goes round the loop again,
\* one handle being free, while NewHandle is drawing with three of the four handles
\* allocated.
C34_Witness ==
  /\ \E t \in Threads :
       /\ hm_pc[t] = "Add_loop"
       /\ Contains(items_, hm_frame[t].handle)
       /\ DOMAIN items_ # Handles
  /\ ld_pc = "NewHandle"
  /\ Cardinality(allocated_handles_) = 3

----------------------------------------------------------------------------
\* For every handle pair and every argument vector: SignHash sends a request exactly
\* when each of its checks passes and a buffer of the required size is supplied, and
\* a call that has sent one fails only with the failure of the remote service.
SignHashRemote ==
  \A p \in HandleArgs, k \in HandleArgs, v \in SignHashArgs :
    LET r == SignHashResult(p, k, v.pPaddingInfoNull, v.pbHashValue, v.pbSignatureNull,
                            v.cbSignature, v.pcbResultNull, v.dwFlags, v.serviceOk)
    IN /\ r.remote # None
            <=> /\ ValidateKeyHandle(p, k) = "OK"
                /\ v.pPaddingInfoNull
                /\ v.pbHashValue # None
                /\ ~v.pcbResultNull
                /\ ValidateFlags(v.dwFlags) = "OK"
                /\ ValidateKeyPreconditions(heap[k]) = "OK"
                /\ ~v.pbSignatureNull
                /\ v.cbSignature >= SignatureLength(heap[k])
       /\ r.remote # None => Cardinality(r.remote) = 1
       /\ (r.remote # None /\ r.status # "OK")
            => (r.status = "NTE_INTERNAL_ERROR" /\ ~v.serviceOk /\ r.output = None)
       /\ (r.remote # None /\ r.status = "OK") => r.output # None

(* C35: remote signing happens only after all checks.  SignHash contacts the remote
   service only when the handle pair is valid, padding info is null, the digest and
   size-output pointers are non-null, the flags are legal, the key passes the
   capability preconditions and a non-null buffer of at least the required size is
   supplied.  A size query and every call that fails one of the checks or the buffer
   test make no request; the one failing call that has made a request is the call
   whose request the remote service failed, reported as an internal error. *)
C35_RemoteAfterChecks ==
  /\ []SignHashRemote
  /\ [][(br_last'.op = "SignHash" /\ br_last'.remote # None)
        => /\ br_last'.handles = "owner"
           /\ br_last'.args = {}
           /\ br_last'.cbResult = Some(64)
           /\ br_last'.status \in {"OK", "NTE_INTERNAL_ERROR"}
           /\ br_last'.status = "OK" <=> br_last'.output # None
           /\ heap' = heap]_vars

\* A SignHash that passed every check sent its request and returned the failure of
\* the remote service.
C35_Witness ==
  /\ br_last.op = "SignHash"
  /\ br_last.status = "NTE_INTERNAL_ERROR"
  /\ br_last.remote # None
  /\ br_last.output = None

\* C35 as stated: a SignHash contacts the remote service only after its checks, and
\* no failing call has made a remote sign request.
C35_NoFailingCallContacts ==
  /\ (br_last.op = "SignHash" /\ br_last.remote # None)
       => (br_last.handles = "owner" /\ br_last.args = {})
  /\ (br_last.op = "SignHash" /\ br_last.status # "OK") => br_last.remote = None

----------------------------------------------------------------------------
(* C36: every key handle that OpenKey returned successfully refers to a key that
   satisfies the capability preconditions: each Object of the heap is bound to a key
   version of a supported algorithm and protection level, so for no provider handle
   and no arguments does SignHash fail with not-supported on an opened key, and no
   SignHash has returned not-supported. *)
C36_OpenedKeysSupported ==
  /\ \A k \in Addr :
       LiveObject(k)
       => /\ heap[k].name \in DOMAIN KmsKeyVersions
          /\ KeySupported(KmsKeyVersions[heap[k].name])
          /\ ValidateKeyPreconditions(heap[k]) = "OK"
          /\ \A p \in HandleArgs, v \in SignHashArgs :
               SignHashResult(p, k, v.pPaddingInfoNull, v.pbHashValue, v.pbSignatureNull,
                              v.cbSignature, v.pcbResultNull, v.dwFlags, v.serviceOk).status
                 # "NTE_NOT_SUPPORTED"
  /\ (br_last.op = "OpenKey" /\ br_last.status = "OK")
       => (br_last.handle # None /\ \A k \in br_last.handle : LiveObject(k))
  /\ br_last.op = "SignHash" => br_last.status # "NTE_NOT_SUPPORTED"

\* A size query on an opened key passed the precondition check of SignHash: the
\* required length was written and nothing was signed.
C36_Witness ==
  /\ br_last.op = "SignHash"
  /\ br_last.status = "OK"
  /\ br_last.handles = "owner"
  /\ br_last.cbResult = Some(64)
  /\ br_last.remote = None

----------------------------------------------------------------------------
\* The locks a thread holds: the login lock inside Login, Logout and is_logged_in and
\* nowhere else, the lock of the registry inside FindObjects and nowhere else.
LockOrder ==
  \A t \in Threads :
    /\ (login_mutex_.writer = t \/ t \in login_mutex_.readers)
         <=> tk_pc[t] \in {"Login", "Logout", "is_logged_in"}
    /\ (mutex_.writer = t \/ t \in mutex_.readers) <=> tk_pc[t] = "FindObjects"

(* C37: no deadlock between the login lock and the registry lock.  No call path of
   Token holds one of the two locks while it takes the other, so a thread that holds
   a lock waits for nothing: every thread inside Login, Logout, is_logged_in or
   FindObjects returns, whatever the other threads are calling, and gives up its
   lock as it returns. *)
C37_NoLockDeadlock ==
  /\ []LockOrder
  /\ \A t \in Threads : (tk_pc[t] # "idle") ~> (tk_pc[t] = "idle")

\* One thread is inside Login, holding the login lock, while the other is inside
\* FindObjects, holding the lock of the registry.
C37_Witness ==
  \E t, u \in Threads :
    /\ tk_pc[t] = "Login"
    /\ login_mutex_.writer = t
    /\ tk_pc[u] = "FindObjects"
    /\ mutex_.readers = {u}

----------------------------------------------------------------------------
\* The login lock is exclusive: the thread between the lock and the return of Login
\* or Logout is the writer, and it is the only one.
LoginExclusion ==
  /\ \A t \in Threads :
       tk_pc[t] \in {"Login", "Login_set", "Logout", "Logout_set"} <=> login_mutex_.writer = t
  /\ is_logged_in_ <=> tk_lastOk = "Login"

(* C38: concurrent login is exclusive.  The flag is read and written under the
   writer lock, so of the Login(CKU_USER) calls that threads make on a logged-out
   Token exactly one succeeds: a Login succeeds only if none has succeeded since the
   last successful Logout, and it then sets the flag; a Login that finds the flag set
   fails with already-logged-in and leaves it set.  Symmetrically a Logout succeeds
   only if a Login has succeeded since the last successful Logout, and otherwise
   fails with not-logged-in. *)
C38_LoginExclusive ==
  /\ []LoginExclusion
  /\ [][\A t \in Threads :
          /\ (tk_pc[t] = "Login" /\ tk_pc'[t] = "Login_set") => ~is_logged_in_
          /\ (tk_pc[t] = "Login_set" /\ tk_pc'[t] = "idle")
               => /\ ~is_logged_in_ /\ is_logged_in_'
                  /\ tk_lastOk # "Login"
                  /\ tk_last' = TkReturn("Login", "CKU_USER", OkStatus, FALSE)
          /\ (tk_pc[t] = "Login" /\ tk_pc'[t] = "idle")
               => /\ is_logged_in_ /\ is_logged_in_'
                  /\ tk_lastOk = "Login" /\ tk_lastOk' = "Login"
                  /\ tk_last'.op = "Login"
                  /\ tk_last'.status = Status("kFailedPrecondition", "CKR_USER_ALREADY_LOGGED_IN")
          /\ (tk_pc[t] = "Logout" /\ tk_pc'[t] = "Logout_set") => is_logged_in_
          /\ (tk_pc[t] = "Logout_set" /\ tk_pc'[t] = "idle")
               => /\ is_logged_in_ /\ ~is_logged_in_'
                  /\ tk_lastOk = "Login"
                  /\ tk_last' = TkReturn("Logout", "none", OkStatus, FALSE)
          /\ (tk_pc[t] = "Logout" /\ tk_pc'[t] = "idle")
               => /\ ~is_logged_in_ /\ ~is_logged_in_'
                  /\ tk_lastOk # "Login" /\ tk_lastOk' = tk_lastOk
                  /\ tk_last'.op = "Logout"
                  /\ tk_last'.status = Status("kFailedPrecondition", "CKR_USER_NOT_LOGGED_IN")]_vars

\* Of two Logins with no Logout between, the first has succeeded and the second has
\* just failed with already-logged-in, while the other thread is inside its next
\* Login.
C38_Witness ==
  /\ tk_last.op = "Login"
  /\ tk_last.status = Status("kFailedPrecondition", "CKR_USER_ALREADY_LOGGED_IN")
  /\ tk_lastOk = "Login"
  /\ is_logged_in_
  /\ \E t \in Threads : tk_pc[t] = "Login"

----------------------------------------------------------------------------
\* The insertions LoadObjects makes for a snapshot, in order: per entry the public
\* key, the private key and, if the entry has one, the certificate.
RECURSIVE Insertions(_)
Insertions(keys) ==
  IF keys = <<>> THEN <<>>
  ELSE LET key == Head(keys)
           name == key.crypto_key_version
       IN <<[handle |-> key.public_key_handle, object |-> NewObjectOf(name, CKO.public_key)],
            [handle |-> key.private_key_handle, object |-> NewObjectOf(name, CKO.private_key)]>>
          \o (IF key.has_certificate
                THEN <<[handle |-> key.certificate_handle,
                        object |-> NewObjectOf(name, CKO.certificate)]>>
                ELSE <<>>)
          \o Insertions(Tail(keys))

\* The insertions at a handle that an earlier insertion has used.
Collisions(ins) == {i \in 1..Len(ins) : \E j \in 1..(i - 1) : ins[j].handle = ins[i].handle}

\* LoadObjects, no DER failing to parse, on the snapshot held: with a handle that
\* occurs twice it returns the internal error, having made exactly the insertions
\* before the second occurrence, each handle bound to its first object; without one it
\* returns the registry of all the insertions.
CollisionRejected ==
  LET ins == Insertions(state_)
      r == LoadObjectsFrom(state_, EmptyMap, 0)
      stop == IF Collisions(ins) = {} THEN Len(ins) + 1
              ELSE CHOOSE i \in Collisions(ins) : \A j \in Collisions(ins) : i <= j
  IN /\ r.status = IF Collisions(ins) = {} THEN "OK" ELSE "INTERNAL"
     /\ DOMAIN r.items = {ins[j].handle : j \in 1..(stop - 1)}
     /\ \A j \in 1..(stop - 1) : r.items[ins[j].handle] = ins[j].object

(* C39: materialization rejects colliding handles.  If a snapshot contains the same
   handle value twice, within one entry or across entries, LoadObjects fails with an
   internal error at the second insertion, the object registered first still bound
   to the handle, and returns no registry: Token::New fails and no Token exists.  A
   Token that exists was built from a snapshot of distinct handles, each bound. *)
C39_CollidingHandlesRejected ==
  /\ []CollisionRejected
  /\ [](token_ # None
          => /\ Collisions(Insertions(state_)) = {}
             /\ \A objects_ \in token_ :
                  DOMAIN objects_ = {Insertions(state_)[j].handle :
                                       j \in 1..Len(Insertions(state_))})
  /\ [][(ld_pc = "objects" /\ ld_pc' # "objects" /\ Collisions(Insertions(state_)) # {})
        => /\ ld_pc' = "failed"
           /\ token_' = None
           /\ ld_log'.fault = "LoadObjects"]_vars

\* LoadObjects has failed on a snapshot of two entries, each of distinct handles,
\* whose second entry uses the private-key handle of the first for its public key.
C39_Witness ==
  /\ ld_pc = "failed"
  /\ ld_log.fault = "LoadObjects"
  /\ token_ = None
  /\ Len(state_) = 2
  /\ Collisions(Insertions(state_)) = {4}
  /\ state_[2].public_key_handle = state_[1].private_key_handle
  /\ state_[1].has_certificate

----------------------------------------------------------------------------
(* C40: output handles are written only on success.  An OpenProvider or OpenKey that
   fails writes nothing to the caller's handle location and makes no object; one that
   succeeds writes a non-zero handle, the address of the Provider or the Object it
   has just made. *)
C40_OutputHandleOnSuccess ==
  /\ [](br_last.op \in {"OpenProvider", "OpenKey"}
          => /\ br_last.status = "OK" <=> br_last.handle # None
             /\ \A a \in br_last.handle : a # NoHandle /\ a \in Addr
             /\ Cardinality(br_last.handle) <= 1)
  /\ [][br_last'.op \in {"OpenProvider", "OpenKey"}
        => IF br_last'.status = "OK"
             THEN \E a \in br_last'.handle :
                    /\ heap[a].kind = "free"
                    /\ heap'[a].kind = IF br_last'.op = "OpenKey" THEN "object" ELSE "provider"
                    /\ \A b \in Addr \ {a} : heap'[b] = heap[b]
             ELSE br_last'.handle = None /\ heap' = heap]_vars

\* An OpenKey whose arguments passed every check has failed in Object::New, no key
\* version having the name, and has written no handle; an earlier OpenKey on the
\* same heap had written one.
C40_Witness ==
  /\ br_last.op = "OpenKey"
  /\ br_last.status = "NTE_BAD_KEYSET"
  /\ br_last.handle = None
  /\ br_last.args = {}
  /\ \E k \in Addr : LiveObject(k)

=============================================================================
